---- MODULE Spec2Model ----
(***************************************************************************)
(* DiscordRPG automatic progression engine.                                *)
(*                                                                         *)
(* The bot runs on one asyncio event loop: a coroutine runs without        *)
(* interruption from one `await` to the next.  The variable cpu names the  *)
(* coroutine that is inside such a synchronous section ("none" when every  *)
(* coroutine is parked at an await); a section that the model splits into  *)
(* several steps keeps cpu until its next await.                           *)
(*                                                                         *)
(* Multipliers are kept in hundredths (110 stands for 1.1), a product of   *)
(* two multipliers is cut to hundredths, and int(x) of a non-negative      *)
(* product is integer division.                                            *)
(*                                                                         *)
(* The tables adventures and epic_adventures are separate and their jobs   *)
(* read and write only their own table; Spec follows one of the two        *)
(* categories per behaviour (variable category).                           *)
(***************************************************************************)
EXTENDS Integers, Sequences, FiniteSets, TLC

\* ---------------------------------------------------------------- bounds
MaxTime == 2
MaxAdventures == 2
\* reward writes followed per work unit
MaxRewards == 2
\* team battle rewards followed
MaxTeamRewards == 1
\* raids started
MaxRaids == 2
\* battles started
MaxBattles == 1

\* the profiles of the server the work-unit jobs are followed on
Users == {1, 2}
\* the adventure durations explored, in time units
Durations == {1, 2}

\* ------------------------------------------------------- program constants
AdvBatchMin == 10
AdvBatchMax == 20
BaseXpMin == 25
BaseGoldMin == 50
MaxLevel == 50
EpicMinLevel == 10
LegendaryMinLevel == 15
EpicBatchMin == 2
EpicBatchMax == 6
MinRaidPlayers == 10
AdvIntervalMin == 7
AdvIntervalMax == 21
BattleIntervalMin == 2
BattleIntervalMax == 8
TeamSize == 3

\* the profiles of the smallest server a raid can start on
Players == 1..MinRaidPlayers
\* the profiles of the smallest server a 3v3 battle can start on
Fighters == 1..(2 * TeamSize)

\* the draws of random.randint(25, 75) and random.randint(50, 200) explored
XpDraws == {BaseXpMin}
GoldDraws == {BaseGoldMin}

\* names auto_adventure_loop draws from (autoplay.py adventure_types)
adventure_types == {"Forest Exploration"}
\* AdventureCog.ADVENTURES: name -> (min_reward, max_reward, difficulty)
ADVENTURES ==
    [n \in {"Help a farmer with lost sheep", "Clear rats from the cellar"} |->
        IF n = "Help a farmer with lost sheep"
        THEN [min_reward |-> 50, max_reward |-> 150, difficulty |-> 1]
        ELSE [min_reward |-> 80, max_reward |-> 200, difficulty |-> 2]]

\* EpicAdventuresCog.EPIC_ADVENTURES / LEGENDARY_ADVENTURES (one entry each)
EPIC_ADVENTURES ==
    [n \in {"Dragon's Lair Expedition"} |->
        [min_level |-> 10, base_xp |-> 2500, base_gold |-> 5000]]
LEGENDARY_ADVENTURES ==
    [n \in {"Godslayer Quest"} |->
        [min_level |-> 15, base_xp |-> 10000, base_gold |-> 20000]]

Invokers == {"loop", "trigger"}

VARIABLES
    category,       \* the work-unit category the behaviour follows
    now,            \* datetime.now(), in abstract time units
    online,         \* is_user_online per user (discord presence)
    xp, money, level, completed,   \* profile columns
    RACES,          \* RaceCog.RACES[race]["bonuses"], shared class attribute
    cpu,
    adventures,     \* rows of table adventures, id = index
    advRewards,     \* per adventures row: update_character calls made for it
    advPc, advSel,                 \* auto_adventure_loop invocations
    lvPc, lvTodo, lvCur,           \* level_up_check
    cancelPc, cancelUser, cancelUnit,   \* the cancel command in flight
    epic_adventures,  \* rows of table epic_adventures, id = index
    epicRewards,      \* per epic row: update_character calls made for it
    epPc, epSel,                   \* auto_epic_adventures
    ecPc, ecTodo, ecCur,           \* check_epic_completions
    blessings,      \* rows of table divine_blessings
    favor,          \* profile column favor
    teamRewards,    \* apply_team_rewards calls made
    active_raid,    \* RaidsCog.active_raid
    raidPc,         \* auto_raids
    raider_stats,   \* run_raid_battle: char_data read per raider
    raid_success,   \* run_raid_battle: the outcome drawn
    raidstats,      \* profile column raidstats
    last_date,      \* profile column last_date
    raidsRun,       \* raids started
    running,        \* the tasks.loop jobs that are started
    aborted,        \* the jobs whose tick in flight the last cancel ended
    btPc,           \* auto_battle_loop
    btWinners, btLosers,   \* the battle in flight: winning_team, losing_team
    btTodo,         \* its members apply_team_rewards has not been called for
    btPaid,         \* members of the last battle whose reward is written
    battlesRun,     \* battles started
    item,           \* the row of table inventory that is followed
    materials,      \* profile columns material_scrap / _dust / _essence
    shown,          \* the rarity the last `item` command displayed
    rfSession,      \* the reforge command in flight
    upSession,      \* the upgrade commands in flight
    powerLog,       \* the power calculations made: who asked, what came back
    resolved,       \* the last outcome resolved: its inputs and its result
    interval,       \* seconds a dynamic-interval job sleeps before a tick
    interval_changed, \* per job: its last run called change_interval
    characters,     \* the users who have a row in table profile
    inventory,      \* rows of table inventory, id = index
    cmds,           \* the commands and jobs suspended at an await
    streak          \* profile column streak

profileVars == <<xp, money, level, completed>>
advProcVars == <<advPc, advSel>>
lvVars == <<lvPc, lvTodo, lvCur>>
cancelVars == <<cancelPc, cancelUser, cancelUnit>>
advVars == <<adventures, advRewards, advProcVars, lvVars, cancelVars>>
epProcVars == <<epPc, epSel>>
ecVars == <<ecPc, ecTodo, ecCur>>
epicVars == <<epic_adventures, epicRewards, epProcVars, ecVars>>
blessVars == <<blessings, favor, teamRewards>>
raidVars == <<active_raid, raidPc, raider_stats, raid_success, raidstats,
              last_date, raidsRun>>
timerVars == <<interval, interval_changed>>
\* the state the work-unit, blessing and raid steps do not touch
battleVars == <<btPc, btWinners, btLosers, btTodo, btPaid, battlesRun>>
itemVars == <<item, materials, shown, rfSession, upSession>>
bagVars == <<characters, inventory, cmds, streak>>
sideVars == <<running, aborted, timerVars, battleVars, itemVars, powerLog, bagVars,
              resolved>>
\* what the steps of one area leave alone
outsideTimers == <<category, now, online, cpu, epicVars, raidVars, running,
                   aborted, battleVars, itemVars, powerLog, bagVars, resolved>>
outsideAdv == <<category, epicVars, blessVars, raidVars, sideVars>>
outsideEpic == <<category, advVars, raidVars, sideVars>>
vars == <<category, now, online, profileVars, RACES, cpu, advVars, epicVars,
          blessVars, raidVars, sideVars>>

Min(a, b) == IF a <= b THEN a ELSE b
Max(a, b) == IF a >= b THEN a ELSE b

Terminal == {"completed", "failed", "cancelled"}

\* min(50, 1 + int((xp / 100) ** 0.5))
LevelForXp(x) ==
    Min(MaxLevel, 1 + CHOOSE k \in 0..MaxLevel :
                        /\ 100 * k * k <= x
                        /\ (k = MaxLevel \/ x < 100 * (k + 1) * (k + 1)))

\* RaceCog.RACES[...]["bonuses"] as the class defines it (every profile here
\* is human), in hundredths
RaceBonuses == [r \in {"human"} |-> [xp_gain |-> 110, gold_find |-> 100]]

\* RaceCog.get_race_multipliers: the bonuses dict of the user's race
Race(p) == "human"
get_race_multipliers(p) == RACES[Race(p)]

\* the user_id values of table profile
Profiles == DOMAIN xp

Ids(table) == 1..Len(table)
ActiveIds(table, p) ==
    {i \in Ids(table) : table[i].user_id = p /\ table[i].status = "active"}

\* the selection without its NOT IN (... status = 'active') filter
online_chars == {p \in Profiles : online[p]}
\* SELECT ... FROM profile WHERE user_id NOT IN (SELECT user_id FROM
\* adventures WHERE status = 'active'), filtered for online users
available_chars ==
    {p \in Profiles : ActiveIds(adventures, p) = {} /\ online[p]}

\* two veterans (level 15) and newcomers
Veterans == {1, 11}
InitXp(p) == IF p \in Veterans THEN 19600 ELSE 0

\* the veteran has the favor for both blessings
InitFavor(p) == IF p = 1 THEN 70 ELSE 0

NoRaid == [raiders |-> {}]

\* the loops cog_load of AutoPlayCog and of EpicAdventuresCog start
AutoplayLoops == {"auto_adventure_loop", "auto_battle_loop",
                  "auto_events_loop", "level_up_check",
                  "initial_activity_check", "level_fix_loop"}
EpicLoops == {"check_epic_completions", "auto_epic_adventures"}
\* the jobs declared with @tasks.loop() and re-armed by change_interval
TimedJobs == {"auto_adventure_loop", "auto_battle_loop"}
\* cog_load: random.randint(7, 21) * 60 and random.randint(1, 5) * 60, the
\* draws at their lower ends
InitialInterval(j) ==
    IF j = "auto_adventure_loop" THEN AdvIntervalMin * 60 ELSE 1 * 60

\* last_date IS NULL
NoDate == 0 - 1

\* the state after the cogs are loaded, on a server with the given members,
\* the inventory, the blacksmith and the owned items aside
InitServer(members) ==
    /\ now = 0
    /\ online \in [members -> BOOLEAN]
    /\ money = [p \in members |-> 0]
    /\ completed = [p \in members |-> 0]
    /\ RACES = RaceBonuses
    /\ cpu = "none"
    /\ adventures = <<>>
    /\ advRewards = <<>>
    /\ advPc = [i \in Invokers |-> "idle"]
    /\ advSel = [i \in Invokers |-> {}]
    /\ lvPc = "idle"
    /\ lvTodo = {}
    /\ lvCur = 0
    /\ cancelPc = "idle"
    /\ cancelUser = 0
    /\ cancelUnit = 0
    /\ epic_adventures = <<>>
    /\ epicRewards = <<>>
    /\ epPc = "idle"
    /\ epSel = {}
    /\ ecPc = "idle"
    /\ ecTodo = {}
    /\ ecCur = 0
    /\ favor = [p \in members |-> InitFavor(p)]
    /\ teamRewards = 0
    /\ active_raid = NoRaid
    /\ raidPc = "idle"
    /\ raider_stats = <<>>
    /\ raid_success = FALSE
    /\ raidstats = [p \in members |-> 0]
    /\ raidsRun = 0
    /\ running = AutoplayLoops \cup EpicLoops
    /\ aborted = {}
    /\ btPc = "idle"
    /\ btWinners = {}
    /\ btLosers = {}
    /\ btTodo = {}
    /\ btPaid = {}
    /\ battlesRun = 0
    /\ interval = [j \in TimedJobs |-> InitialInterval(j)]
    /\ interval_changed = [j \in TimedJobs |-> TRUE]
    /\ powerLog = <<>>
    /\ resolved = [fn |-> "none"]

\* the members' xp, and the levels that go with it
InitColumns(members) ==
    /\ InitServer(members)
    /\ xp = [p \in members |-> InitXp(p)]
    /\ level = [p \in members |-> LevelForXp(InitXp(p))]

\* every member has a character and has never claimed a daily reward; no
\* item is owned, no command is waiting
InitBag(members) ==
    /\ characters = members
    /\ inventory = <<>>
    /\ cmds = {}
    /\ streak = [p \in members |-> 0]
    /\ last_date = [p \in members |-> NoDate]

InitProfiles(members) ==
    /\ InitColumns(members)
    /\ InitBag(members)

\* the same with an empty divine_blessings table
InitCore(members) ==
    /\ InitProfiles(members)
    /\ blessings = {}

\* no item is followed and nobody is at the blacksmith
NoItem == [type |-> "none"]
NoSession == [pc |-> "idle"]
Sessions == {1, 2}

\* the state after the cogs are loaded
InitStore(members) ==
    /\ InitCore(members)
    /\ item = NoItem
    /\ materials = [m \in {"scrap", "dust", "essence"} |-> 0]
    /\ shown = "none"
    /\ rfSession = NoSession
    /\ upSession = [s \in Sessions |-> NoSession]

Init ==
    /\ category \in {"adventures", "epic_adventures"}
    /\ InitStore(Users)

\* ------------------------------------------------------------ environment
Tick ==
    /\ cpu = "none"
    /\ now < MaxTime
    /\ now' = now + 1
    /\ UNCHANGED <<category, online, profileVars, RACES, cpu, advVars,
                   epicVars, blessVars, raidVars, sideVars>>

SetOnline(p) ==
    /\ cpu = "none"
    /\ online' = [online EXCEPT ![p] = ~online[p]]
    /\ UNCHANGED <<category, now, profileVars, RACES, cpu, advVars,
                   epicVars, blessVars, raidVars, sideVars>>

\* ------------------------------------------------- auto_adventure_loop
\* The synchronous section from the SELECT to the last INSERT; AdvSelect is
\* its first step and hands the selection to AdvInsert.
\* an invocation that would await between its SELECT and its INSERTs
SelectAwaits(i) == "none"
\* auto_adventure_loop has no await between its SELECT and its last INSERT:
\* the invocation keeps the event loop from AdvSelect to the end of AdvInsert
SelectHolds(i) == i

AdvSelect(i) ==
    /\ category = "adventures"
    /\ cpu = "none"
    /\ (i = "loop" => "auto_adventure_loop" \in running)
    /\ advPc[i] = "idle"
    /\ available_chars # {}
    /\ \E n \in AdvBatchMin..AdvBatchMax :
       \E selected \in SUBSET available_chars :
          /\ Cardinality(selected) = Min(n, Cardinality(available_chars))
          /\ Len(adventures) + Cardinality(selected) <= MaxAdventures
          \* datetime.now() has moved on since an earlier unit of the same
          \* participant was created
          /\ \A p \in selected : \A u \in Ids(adventures) :
                adventures[u].user_id = p => adventures[u].started_at < now
          /\ advSel' = [advSel EXCEPT ![i] = selected]
    /\ advPc' = [advPc EXCEPT ![i] = "insert"]
    /\ cpu' = SelectHolds(i)
    /\ UNCHANGED <<outsideAdv, now, online, profileVars, RACES, adventures, advRewards,
                   lvVars, cancelVars>>

\* one iteration of `for char in selected` (or the single-adventure branch):
\* INSERT INTO adventures ... 'active'; a failed INSERT is logged and skipped
AdvInsert(i) ==
    /\ cpu = SelectHolds(i)
    /\ advPc[i] = "insert"
    /\ \E c \in advSel[i] :
       /\ \E duration \in Durations, adventure_type \in adventure_types,
             ok \in BOOLEAN :
            IF ok
            THEN /\ adventures' = Append(adventures,
                        [user_id |-> c, adventure_name |-> adventure_type,
                         started_at |-> now, finish_at |-> now + duration,
                         status |-> "active"])
                 /\ advRewards' = Append(advRewards, 0)
            ELSE UNCHANGED <<adventures, advRewards>>
       /\ advSel' = [advSel EXCEPT ![i] = @ \ {c}]
       /\ IF advSel[i] = {c}
          THEN /\ advPc' = [advPc EXCEPT ![i] = "send"]
               /\ cpu' = "none"
          ELSE UNCHANGED <<advPc, cpu>>
    /\ UNCHANGED <<outsideAdv, now, online, profileVars, RACES, lvVars, cancelVars>>

\* await channel.send(...) returns (or raises into the job's except)
AdvSend(i) ==
    /\ cpu = "none"
    /\ advPc[i] = "send"
    /\ advPc' = [advPc EXCEPT ![i] = "idle"]
    /\ UNCHANGED <<outsideAdv, now, online, profileVars, RACES, adventures, advRewards,
                   cpu, advSel, lvVars, cancelVars>>

\* ------------------------------------------------------- level_up_check
\* SELECT a.* FROM adventures a JOIN profile p ... WHERE a.status = 'active'
\* AND a.finish_at <= now, filtered for online users
online_completed ==
    {u \in Ids(adventures) :
        /\ adventures[u].status = "active"
        /\ adventures[u].finish_at <= now
        /\ online[adventures[u].user_id]}

LevelUpSelect ==
    /\ category = "adventures"
    /\ cpu = "none"
    /\ "level_up_check" \in running
    /\ lvPc = "idle"
    /\ online_completed # {}
    /\ lvTodo' = online_completed
    /\ lvPc' = "reward"
    /\ cpu' = "levelup"
    /\ UNCHANGED <<outsideAdv, now, online, profileVars, RACES, adventures, advRewards,
                   advProcVars, lvCur, cancelVars>>

\* rewards of one adventure of the list: update_character(xp, money, level,
\* completed)
LevelUpReward ==
    /\ cpu = "levelup"
    /\ lvPc = "reward"
    /\ \E u \in lvTodo, base_xp \in XpDraws, base_gold \in GoldDraws :
        LET p == adventures[u].user_id
            race_multipliers == get_race_multipliers(p)
            final_xp == (base_xp * race_multipliers.xp_gain) \div 100
            final_gold == (base_gold * race_multipliers.gold_find) \div 100
            new_xp == xp[p] + final_xp
        IN  /\ xp' = [xp EXCEPT ![p] = new_xp]
            /\ money' = [money EXCEPT ![p] = @ + final_gold]
            /\ level' = [level EXCEPT ![p] = LevelForXp(new_xp)]
            /\ completed' = [completed EXCEPT ![p] = @ + 1]
            /\ advRewards' = [advRewards EXCEPT ![u] = @ + 1]
            /\ lvCur' = u
            /\ lvTodo' = lvTodo \ {u}
    /\ lvPc' = "mark"
    /\ UNCHANGED <<outsideAdv, now, online, RACES, adventures, cpu, advProcVars,
                   cancelVars>>

\* UPDATE adventures SET status = 'completed' WHERE user_id = ? AND finish_at = ?
MarkCompleted(table, user_id, finish_at) ==
    [i \in Ids(table) |->
        IF table[i].user_id = user_id /\ table[i].finish_at = finish_at
        THEN [table[i] EXCEPT !.status = "completed"]
        ELSE table[i]]

LevelUpMark ==
    /\ cpu = "levelup"
    /\ lvPc = "mark"
    /\ adventures' = MarkCompleted(adventures, adventures[lvCur].user_id,
                                   adventures[lvCur].finish_at)
    /\ lvPc' = "item"
    /\ UNCHANGED <<outsideAdv, now, online, profileVars, RACES, advRewards, cpu,
                   advProcVars, lvTodo, lvCur, cancelVars>>

\* the 40% item reward: it returns (with or without a new row of the items
\* table, which nothing here reads), or create_item_in_db raises into the
\* job's `except Exception`, which ends the tick
LevelUpItem ==
    /\ cpu = "levelup"
    /\ lvPc = "item"
    /\ \E outcome \in {"returns", "raises"} :
        /\ IF outcome = "raises"
           THEN /\ lvPc' = "idle"
                /\ lvTodo' = {}
                /\ cpu' = "none"
           ELSE IF lvTodo = {}
                THEN /\ lvPc' = "send"
                     /\ cpu' = "none"
                     /\ UNCHANGED lvTodo
                ELSE /\ lvPc' = "reward"
                     /\ UNCHANGED <<cpu, lvTodo>>
    /\ lvCur' = 0
    /\ UNCHANGED <<outsideAdv, now, online, profileVars, RACES, adventures, advRewards,
                   advProcVars, cancelVars>>

\* await channel.send(embed=completion_embed) returns or raises
LevelUpSend ==
    /\ cpu = "none"
    /\ lvPc = "send"
    /\ lvPc' = "idle"
    /\ UNCHANGED <<outsideAdv, now, online, profileVars, RACES, adventures, advRewards,
                   cpu, advProcVars, lvTodo, lvCur, cancelVars>>

\* ---------------------------------------------------- store (utils.database)
\* Database.get_active_adventure(user_id): the active rows of the user
get_active_adventure(p) == ActiveIds(adventures, p)

\* Database.complete_adventure(adventure_id, success): the store's conditional
\* finalize, from 'active' to 'completed' or 'failed'
db_complete_adventure(table, id, success) ==
    [i \in Ids(table) |->
        IF i = id /\ table[i].status = "active"
        THEN [table[i] EXCEPT !.status = IF success THEN "completed" ELSE "failed"]
        ELSE table[i]]

\* ------------------------------------ complete / status -> complete_adventure
\* The command runs without an await from get_active_adventure to the reward.
Complete(p) ==
    /\ category = "adventures"
    /\ cpu = "none"
    /\ \E id \in get_active_adventure(p), success \in BOOLEAN :
        /\ adventures[id].finish_at <= now
        /\ adventures' = db_complete_adventure(adventures, id, success)
        /\ LET name == adventures[id].adventure_name IN
           IF name \notin DOMAIN ADVENTURES
           THEN \* "Adventure data corrupted!"
                UNCHANGED <<profileVars, advRewards>>
           ELSE LET info == ADVENTURES[name]
                    race_multipliers == get_race_multipliers(p)
                    difficulty_bonus == Max(0, info.difficulty - level[p]) * 10
                    gold0 == (info.min_reward * (100 + difficulty_bonus)) \div 100
                    gold_reward == (gold0 * race_multipliers.gold_find) \div 100
                    xp_reward == ((info.difficulty * 10 + 5)
                                     * race_multipliers.xp_gain) \div 100
                IN  IF success
                    THEN /\ money' = [money EXCEPT ![p] = @ + gold_reward]
                         /\ xp' = [xp EXCEPT ![p] = @ + xp_reward]
                         /\ completed' = [completed EXCEPT ![p] = @ + 1]
                         /\ advRewards' = [advRewards EXCEPT ![id] = @ + 1]
                         /\ UNCHANGED level
                    ELSE /\ xp' = [xp EXCEPT ![p] = @ + 1]
                         /\ advRewards' = [advRewards EXCEPT ![id] = @ + 1]
                         /\ UNCHANGED <<money, level, completed>>
    /\ UNCHANGED <<outsideAdv, now, online, RACES, cpu, advProcVars, lvVars, cancelVars>>

\* ------------------------------------------------------------------ cancel
\* get_active_adventure, then `await ctx.confirm(...)`
CancelAsk(p) ==
    /\ category = "adventures"
    /\ cpu = "none"
    /\ cancelPc = "idle"
    /\ \E id \in get_active_adventure(p) : cancelUnit' = id
    /\ cancelUser' = p
    /\ cancelPc' = "confirm"
    /\ UNCHANGED <<outsideAdv, now, online, profileVars, RACES, adventures, advRewards,
                   cpu, advProcVars, lvVars>>

\* the confirmation arrives: complete_adventure(active['id'], False), or
\* "Adventure continues."
CancelConfirm ==
    /\ cpu = "none"
    /\ cancelPc = "confirm"
    /\ \E confirmed \in BOOLEAN :
        adventures' = IF confirmed
                      THEN db_complete_adventure(adventures, cancelUnit, FALSE)
                      ELSE adventures
    /\ cancelPc' = "idle"
    /\ cancelUser' = 0
    /\ cancelUnit' = 0
    /\ UNCHANGED <<outsideAdv, now, online, profileVars, RACES, advRewards, cpu,
                   advProcVars, lvVars>>


\* -------------------------------------------------- auto_epic_adventures
\* SELECT user_id, name, level FROM profile WHERE level >= 10 AND user_id NOT
\* IN (SELECT user_id FROM epic_adventures WHERE status = 'active')
all_high_level ==
    {p \in Profiles : level[p] >= EpicMinLevel
                     /\ ActiveIds(epic_adventures, p) = {}}
online_eligible == {p \in all_high_level : online[p]}

\* the names of a dict the character's level admits
AvailableNames(dict, lvl) == {n \in DOMAIN dict : lvl >= dict[n].min_level}

EpicSelect ==
    /\ category = "epic_adventures"
    /\ cpu = "none"
    /\ "auto_epic_adventures" \in running
    /\ epPc = "idle"
    /\ online_eligible # {}
    /\ \E n \in EpicBatchMin..EpicBatchMax :
       \E selected \in SUBSET online_eligible :
          /\ Cardinality(selected) = Min(n, Cardinality(online_eligible))
          /\ Len(epic_adventures) + Cardinality(selected) <= MaxAdventures
          /\ epSel' = selected
    /\ epPc' = "insert"
    /\ cpu' = "epicstart"
    /\ UNCHANGED <<outsideEpic, blessVars, now, online, profileVars, RACES,
                   epic_adventures, epicRewards, ecVars>>

\* one iteration of `for char in selected`: the type and name draws, the
\* double-check SELECT and the INSERT; a failed INSERT is logged and skipped.
\* After the last one: commit and `await channel.send` if anything was
\* created (the model parks there in both cases).
EpicInsert ==
    /\ cpu = "epicstart"
    /\ epPc = "insert"
    /\ \E c \in epSel :
       /\ \E legendary_draw \in BOOLEAN, duration \in Durations,
             ok \in BOOLEAN :
            LET adventure_type ==
                    IF level[c] >= LegendaryMinLevel /\ legendary_draw
                    THEN "legendary" ELSE "epic"
                adventures_dict ==
                    IF adventure_type = "legendary"
                    THEN LEGENDARY_ADVENTURES ELSE EPIC_ADVENTURES
                available == AvailableNames(adventures_dict, level[c])
                existing_active == ActiveIds(epic_adventures, c)
            IN  IF available = {} \/ existing_active # {} \/ ~ok
                THEN UNCHANGED <<epic_adventures, epicRewards>>
                ELSE \E adventure_name \in available :
                      /\ epic_adventures' = Append(epic_adventures,
                            [user_id |-> c,
                             adventure_type |-> adventure_type,
                             adventure_name |-> adventure_name,
                             finish_at |-> now + duration,
                             base_xp_reward |->
                                 adventures_dict[adventure_name].base_xp,
                             base_gold_reward |->
                                 adventures_dict[adventure_name].base_gold,
                             status |-> "active"])
                      /\ epicRewards' = Append(epicRewards, 0)
       /\ epSel' = epSel \ {c}
       /\ IF epSel = {c}
          THEN /\ epPc' = "send"
               /\ cpu' = "none"
          ELSE UNCHANGED <<epPc, cpu>>
    /\ UNCHANGED <<outsideEpic, blessVars, now, online, profileVars, RACES,
                   ecVars>>

\* await channel.send(embed=embed) returns or raises; the tick ends
EpicStartSend ==
    /\ cpu = "none"
    /\ epPc = "send"
    /\ epPc' = "idle"
    /\ UNCHANGED <<outsideEpic, blessVars, now, online, profileVars, RACES,
                   cpu, epic_adventures, epicRewards, epSel, ecVars>>


\* ------------------------------------------------------------- blessings
\* ReligionCog.bless: the blessings offered (wisdom, prosperity)
BLESSINGS ==
    [b \in {"wisdom", "prosperity"} |->
        IF b = "wisdom"
        THEN [cost |-> 40, effect |-> "xp_mult", value |-> 175]
        ELSE [cost |-> 30, effect |-> "gold_mult", value |-> 150]]

\* how long a blessing lasts, in time units
BlessDuration == 1

\* SELECT * FROM divine_blessings WHERE user_id = ? AND expires_at > ?
ActiveBlessings(p) ==
    {b \in blessings : b.user_id = p /\ b.expires_at > now}

RECURSIVE ProductOf(_)
ProductOf(rows) ==
    IF rows = {} THEN 100
    ELSE LET r == CHOOSE x \in rows : TRUE
         IN  (r.value * ProductOf(rows \ {r})) \div 100

\* a resolution that compounds the rows of one effect
BlessingMultCompounded(p, effect) ==
    ProductOf({a \in ActiveBlessings(p) : a.effect = effect})

\* `active[effect] = max(active[effect], value)` over the active rows
BlessingMult(p, effect) ==
    LET vals == {b.value : b \in {a \in ActiveBlessings(p) : a.effect = effect}}
    IN  IF vals = {} THEN 100
        ELSE Max(100, CHOOSE v \in vals : \A w \in vals : w <= v)

\* the dict get_active_blessings returns
get_active_blessings(p) ==
    [xp_mult |-> BlessingMult(p, "xp_mult"),
     gold_mult |-> BlessingMult(p, "gold_mult"),
     battle_mult |-> BlessingMult(p, "battle_mult")]

\* DELETE FROM divine_blessings WHERE user_id = ? AND expires_at <= ?
CleanExpired(p) ==
    {b \in blessings : ~(b.user_id = p /\ b.expires_at <= now)}

\* the bless command, from the favor check to the INSERT
Bless(p) ==
    /\ cpu = "none"
    /\ \E blessing_type \in DOMAIN BLESSINGS :
        LET blessing == BLESSINGS[blessing_type] IN
        /\ favor[p] >= blessing.cost
        /\ \A b \in ActiveBlessings(p) : b.effect # blessing.effect
        /\ favor' = [favor EXCEPT ![p] = @ - blessing.cost]
        /\ blessings' = blessings \cup
               {[user_id |-> p, effect |-> blessing.effect,
                 value |-> blessing.value,
                 expires_at |-> now + BlessDuration]}
    /\ UNCHANGED <<category, now, online, profileVars, RACES, cpu, advVars,
                   epicVars, teamRewards, raidVars, sideVars>>

\* apply_team_rewards for a 3v3 battle (the draws at their lower ends): the
\* race multipliers times the blessing multipliers, then update_character
TEAM_BASE == [winner_xp |-> 80, loser_xp |-> 20, winner_gold |-> 150]

apply_team_rewards(member, is_winner) ==
    /\ cpu = "none"
    /\ teamRewards < MaxTeamRewards
    /\ LET blessing_bonuses == get_active_blessings(member)
           xp_gain == (get_race_multipliers(member).xp_gain
                          * blessing_bonuses.xp_mult) \div 100
           gold_find == (get_race_multipliers(member).gold_find
                            * blessing_bonuses.gold_mult) \div 100
           xp_reward == ((IF is_winner THEN TEAM_BASE.winner_xp
                          ELSE TEAM_BASE.loser_xp) * xp_gain) \div 100
           gold_reward == IF is_winner
                          THEN (TEAM_BASE.winner_gold * gold_find) \div 100
                          ELSE 0
       IN  /\ blessings' = CleanExpired(member)
           /\ RACES' = [RACES EXCEPT ![Race(member)] =
                           [xp_gain |-> xp_gain, gold_find |-> gold_find]]
           /\ xp' = [xp EXCEPT ![member] = @ + xp_reward]
           /\ money' = [money EXCEPT ![member] = @ + gold_reward]
    /\ teamRewards' = teamRewards + 1
    /\ UNCHANGED <<category, now, online, level, completed, cpu, favor,
                   advVars, epicVars, raidVars, sideVars>>

\* ------------------------------------------------ check_epic_completions
\* SELECT * FROM epic_adventures WHERE status = 'active' AND finish_at <= ?
epic_completed ==
    {u \in Ids(epic_adventures) :
        /\ epic_adventures[u].status = "active"
        /\ epic_adventures[u].finish_at <= now}

EpicCheckSelect ==
    /\ category = "epic_adventures"
    /\ cpu = "none"
    /\ "check_epic_completions" \in running
    /\ ecPc = "idle"
    /\ epic_completed # {}
    /\ \A u \in epic_completed : epicRewards[u] < MaxRewards
    /\ ecTodo' = epic_completed
    /\ ecPc' = "process"
    /\ cpu' = "epiccheck"
    /\ UNCHANGED <<outsideEpic, blessVars, now, online, profileVars, RACES,
                   epic_adventures, epicRewards, epProcVars, ecCur>>

\* one iteration of `for adventure in completed` up to update_character: the
\* success draw, then the reward (with the race and blessing multipliers) or
\* the consolation reward
EpicProcess ==
    /\ cpu = "epiccheck"
    /\ ecPc = "process"
    /\ \E u \in ecTodo, success \in BOOLEAN :
        LET adventure == epic_adventures[u]
            p == adventure.user_id
            blessing_bonuses == get_active_blessings(p)
            xp_gain == IF success
                       THEN (get_race_multipliers(p).xp_gain
                                * blessing_bonuses.xp_mult) \div 100
                       ELSE get_race_multipliers(p).xp_gain
            gold_find == IF success
                         THEN (get_race_multipliers(p).gold_find
                                  * blessing_bonuses.gold_mult) \div 100
                         ELSE get_race_multipliers(p).gold_find
            final_xp == IF success
                        THEN (adventure.base_xp_reward * xp_gain) \div 100
                        ELSE (adventure.base_xp_reward * 20 * xp_gain)
                                \div 10000
            final_gold == IF success
                          THEN (adventure.base_gold_reward * gold_find) \div 100
                          ELSE (adventure.base_gold_reward * 10 * gold_find)
                                  \div 10000
            new_xp == xp[p] + final_xp
        IN  /\ blessings' = IF success THEN CleanExpired(p) ELSE blessings
            \* race_multipliers[...] *= blessing_bonuses[...] on the dict
            \* get_race_multipliers returned
            /\ RACES' = [RACES EXCEPT ![Race(p)] =
                            [xp_gain |-> xp_gain, gold_find |-> gold_find]]
            /\ xp' = [xp EXCEPT ![p] = new_xp]
            /\ money' = [money EXCEPT ![p] = @ + final_gold]
            /\ level' = [level EXCEPT ![p] =
                            IF success THEN LevelForXp(new_xp) ELSE @]
            /\ epicRewards' = [epicRewards EXCEPT ![u] = @ + 1]
            /\ ecCur' = u
            /\ ecTodo' = ecTodo \ {u}
            /\ ecPc' = IF success THEN "items" ELSE "mark"
    /\ UNCHANGED <<outsideEpic, favor, teamRewards, now, online, completed,
                   cpu, epic_adventures, epProcVars>>

\* the item loop: every create_item_in_db returns, or one raises into the
\* job's `except Exception`, which ends the tick
EpicItems ==
    /\ cpu = "epiccheck"
    /\ ecPc = "items"
    /\ \E outcome \in {"returns", "raises"} :
        IF outcome = "raises"
        THEN /\ ecPc' = "idle"
             /\ ecTodo' = {}
             /\ ecCur' = 0
             /\ cpu' = "none"
        ELSE /\ ecPc' = "mark"
             /\ UNCHANGED <<ecTodo, ecCur, cpu>>
    /\ UNCHANGED <<outsideEpic, blessVars, now, online, profileVars, RACES,
                   epic_adventures, epicRewards, epProcVars>>

\* UPDATE epic_adventures SET status = 'completed' WHERE id = ?; commit;
\* then `await channel.send(embed=embed)`
EpicMark ==
    /\ cpu = "epiccheck"
    /\ ecPc = "mark"
    /\ epic_adventures' =
           [epic_adventures EXCEPT ![ecCur].status = "completed"]
    /\ ecPc' = "send"
    /\ ecCur' = 0
    /\ cpu' = "none"
    /\ UNCHANGED <<outsideEpic, blessVars, now, online, profileVars, RACES,
                   epicRewards, epProcVars, ecTodo>>

\* the send returns and the loop goes on with the list it fetched, or the
\* send raises and the tick ends
EpicCheckSend ==
    /\ cpu = "none"
    /\ ecPc = "send"
    /\ \E outcome \in {"returns", "raises"} :
        IF outcome = "returns" /\ ecTodo # {}
        THEN /\ ecPc' = "process"
             /\ cpu' = "epiccheck"
             /\ UNCHANGED ecTodo
        ELSE /\ ecPc' = "idle"
             /\ ecTodo' = {}
             /\ UNCHANGED cpu
    /\ UNCHANGED <<outsideEpic, blessVars, now, online, profileVars, RACES,
                   epic_adventures, epicRewards, epProcVars, ecCur>>


\* ------------------------------------------------------------------ raids
\* the boss drawn (Kraken): level, xp_reward, gold_reward
boss == [level |-> 20, xp_reward |-> 600, gold_reward |-> 2800]

outsideRaid == <<category, now, online, level, completed, RACES, cpu,
                 advVars, epicVars, blessVars, sideVars>>

\* get_online_players
online_players == {p \in Profiles : online[p]}

\* auto_raids up to the first await of start_raid: a tick that finds
\* active_raid set, or fewer than 10 players online, returns at once
AutoRaidsTick ==
    /\ category = "raids"
    /\ cpu = "none"
    /\ raidPc = "idle"
    /\ raidsRun < MaxRaids
    /\ active_raid = NoRaid
    /\ Cardinality(online_players) >= MinRaidPlayers
    \* min(len(available_players), randint(boss.min_players, ...)), the
    \* bosses asking for 20 players or more
    /\ active_raid' = [raiders |-> online_players]
    /\ raidPc' = "announce"
    /\ raidsRun' = raidsRun + 1
    /\ UNCHANGED <<outsideRaid, xp, money, raider_stats, raid_success,
                   raidstats, last_date>>

\* `await self.raid_channel.send(embed=embed)` and the sleep before the
\* battle: they return, or the send raises into `except Exception` of
\* auto_raids, which ends the tick
RaidAnnounce ==
    /\ cpu = "none"
    /\ raidPc = "announce"
    /\ \E outcome \in {"returns", "raises"} :
        raidPc' = IF outcome = "returns" THEN "battle" ELSE "idle"
    /\ UNCHANGED <<outsideRaid, xp, money, active_raid, raider_stats,
                   raid_success, raidstats, last_date, raidsRun>>

\* run_raid_battle up to its first await: char_data of every raider is read
\* and the outcome is drawn
RaidBattle ==
    /\ cpu = "none"
    /\ raidPc = "battle"
    /\ raider_stats' = [p \in active_raid.raiders |->
                           [money |-> money[p], xp |-> xp[p],
                            raidstats |-> raidstats[p]]]
    /\ \E success \in BOOLEAN : raid_success' = success
    /\ raidPc' = "narrative"
    /\ UNCHANGED <<outsideRaid, xp, money, active_raid, raidstats, last_date,
                   raidsRun>>

\* the narrative sleeps and sends of run_raid_battle: they return, or a send
\* raises
RaidNarrative ==
    /\ cpu = "none"
    /\ raidPc = "narrative"
    /\ \E outcome \in {"returns", "raises"} :
        raidPc' = IF outcome = "returns" THEN "outcome" ELSE "idle"
    /\ UNCHANGED <<outsideRaid, xp, money, active_raid, raider_stats,
                   raid_success, raidstats, last_date, raidsRun>>

\* the raiders handle_raid_victory has rewarded when create_item_in_db
\* raises at the k-th of them
RewardedUpTo(k) == {p \in DOMAIN raider_stats : p <= k}

\* a reward step that draws the result for each raider on its own
RaidOutcomePerRaider ==
    /\ cpu = "none"
    /\ raidPc = "outcome"
    /\ \E winners \in SUBSET DOMAIN raider_stats :
        /\ money' = [p \in DOMAIN money |->
                        IF p \in DOMAIN raider_stats
                        THEN raider_stats[p].money
                                 + (IF p \in winners
                                    THEN boss.gold_reward + 200 + boss.level * 10
                                    ELSE boss.gold_reward \div 4 + 100)
                        ELSE money[p]]
        /\ xp' = [p \in DOMAIN xp |->
                     IF p \in DOMAIN raider_stats
                     THEN raider_stats[p].xp
                              + (IF p \in winners
                                 THEN boss.xp_reward + 50 + boss.level * 10
                                 ELSE boss.xp_reward \div 3 + 25)
                     ELSE xp[p]]
        /\ raidstats' = [p \in DOMAIN raidstats |->
                            IF p \in winners
                            THEN raider_stats[p].raidstats + 1
                            ELSE raidstats[p]]
    /\ raidPc' = "report"
    /\ UNCHANGED <<outsideRaid, active_raid, raider_stats, raid_success,
                   last_date, raidsRun>>

\* handle_raid_victory / handle_raid_defeat up to their first await: every
\* raider's row is written from the char_data read by RaidBattle
RaidOutcome ==
    /\ cpu = "none"
    /\ raidPc = "outcome"
    /\ \E rewarded \in {DOMAIN raider_stats}
                        \cup (IF raid_success
                              THEN {RewardedUpTo(k) : k \in DOMAIN raider_stats}
                              ELSE {}) :
        LET xp_reward == IF raid_success
                         THEN boss.xp_reward + 50 + boss.level * 10
                         ELSE boss.xp_reward \div 3 + 25
            gold_reward == IF raid_success
                           THEN boss.gold_reward + 200 + boss.level * 10
                           ELSE boss.gold_reward \div 4 + 100
        IN  /\ money' = [p \in DOMAIN money |->
                            IF p \in rewarded
                            THEN raider_stats[p].money + gold_reward
                            ELSE money[p]]
            /\ xp' = [p \in DOMAIN xp |->
                         IF p \in rewarded
                         THEN raider_stats[p].xp + xp_reward
                         ELSE xp[p]]
            /\ raidstats' = [p \in DOMAIN raidstats |->
                                IF p \in rewarded /\ raid_success
                                THEN raider_stats[p].raidstats + 1
                                ELSE raidstats[p]]
            \* a raise at the last raider's item leaves everyone rewarded too
            /\ \E raised \in IF raid_success THEN BOOLEAN ELSE {FALSE} :
                  /\ (rewarded # DOMAIN raider_stats => raised)
                  /\ raidPc' = IF raised THEN "idle" ELSE "report"
    /\ UNCHANGED <<outsideRaid, active_raid, raider_stats, raid_success,
                   last_date, raidsRun>>

\* the result embeds are sent and run_raid_battle clears active_raid, or a
\* send raises
RaidReport ==
    /\ cpu = "none"
    /\ raidPc = "report"
    /\ \E outcome \in {"returns", "raises"} :
        active_raid' = IF outcome = "returns" THEN NoRaid ELSE active_raid
    /\ raidPc' = "idle"
    /\ UNCHANGED <<outsideRaid, xp, money, raider_stats, raid_success,
                   raidstats, last_date, raidsRun>>

\* today and yesterday of the daily command; a time unit is a calendar day
\* wherever the command is followed
today == now
yesterday == now - 1
\* random.uniform(0.8, 1.2) in hundredths, both ends
DailyDraws == {80, 120}

\* what the daily command leaves alone
outsideDaily == <<category, now, online, level, completed, RACES, cpu,
                  advVars, epicVars, blessVars, running, aborted, timerVars,
                  battleVars, itemVars, powerLog, characters, inventory, cmds,
                  active_raid, raidPc, raider_stats, raid_success, raidstats,
                  raidsRun>>

\* the rewards for day display_streak: gold, xp, and the perfect week's gold
DailyGold(new_streak, multiplier) ==
    LET display_streak == IF new_streak < 10 THEN new_streak ELSE 10
    IN  ((100 + display_streak * 50) * multiplier) \div 100
            + (IF display_streak = 7 THEN 1000 ELSE 0)
DailyXp(new_streak, multiplier) ==
    LET display_streak == IF new_streak < 10 THEN new_streak ELSE 10
    IN  ((50 + display_streak * 25) * multiplier) \div 100

\* the reply of the daily command, followed in its own category only
DailyReply(p, applied) ==
    IF category = "daily"
    THEN [fn |-> "daily", user_id |-> p, applied |-> applied]
    ELSE resolved

\* a daily command without the check of last_date and with a plain UPDATE
daily_unchecked(p, multiplier) ==
    /\ cpu = "none"
    /\ p \in characters
    /\ LET new_streak == (IF last_date[p] = yesterday THEN streak[p] ELSE 0) + 1
       IN  /\ money' = [money EXCEPT ![p] = @ + DailyGold(new_streak, multiplier)]
           /\ xp' = [xp EXCEPT ![p] = @ + DailyXp(new_streak, multiplier)]
           /\ last_date' = [last_date EXCEPT ![p] = today]
           /\ streak' = [streak EXCEPT ![p] = new_streak]
           /\ resolved' = DailyReply(p, TRUE)
    /\ UNCHANGED outsideDaily

\* the daily command: the check of last_date, then UPDATE profile SET money
\* = money + ?, xp = xp + ?, last_date = ?, streak = ? WHERE user_id = ? AND
\* (last_date != ? OR last_date IS NULL), then the perfect week bonus; there
\* is no await between the read of the row and the last write
daily(p, multiplier) ==
    /\ cpu = "none"
    /\ p \in characters
    /\ LET new_streak == (IF last_date[p] = yesterday THEN streak[p] ELSE 0) + 1
       IN  IF last_date[p] = today
           THEN /\ resolved' = DailyReply(p, FALSE)
                /\ UNCHANGED <<money, xp, last_date, streak>>
           ELSE /\ money' = [money EXCEPT
                                ![p] = @ + DailyGold(new_streak, multiplier)]
                /\ xp' = [xp EXCEPT ![p] = @ + DailyXp(new_streak, multiplier)]
                /\ last_date' = [last_date EXCEPT ![p] = today]
                /\ streak' = [streak EXCEPT ![p] = new_streak]
                /\ resolved' = DailyReply(p, TRUE)
    /\ UNCHANGED outsideDaily

\* a server whose members have claimed never or, with a streak of six days,
\* today
InitDaily ==
    /\ category = "daily"
    /\ InitColumns(Users)
    /\ online = [p \in Users |-> TRUE]
    /\ blessings = {}
    /\ item = NoItem
    /\ materials = [m \in {"scrap", "dust", "essence"} |-> 0]
    /\ shown = "none"
    /\ rfSession = NoSession
    /\ upSession = [s \in Sessions |-> NoSession]
    /\ characters = Users
    /\ inventory = <<>>
    /\ cmds = {}
    /\ streak \in [Users -> {0, 6}]
    /\ last_date = [p \in Users |-> IF streak[p] = 0 THEN NoDate ELSE today]
NextDaily ==
    \/ Tick
    \/ \E p \in Users, multiplier \in DailyDraws : daily(p, multiplier)
SpecDaily == InitDaily /\ [][NextDaily]_vars

\* the steps of the adventures category
NextAdventures ==
    \/ \E i \in Invokers : AdvSelect(i)
    \/ \E i \in Invokers : AdvInsert(i)
    \/ \E i \in Invokers : AdvSend(i)
    \/ LevelUpSelect
    \/ LevelUpReward
    \/ LevelUpMark
    \/ LevelUpItem
    \/ LevelUpSend
    \/ \E p \in Users : Complete(p)
    \/ \E p \in Users : CancelAsk(p)
    \/ CancelConfirm

\* the steps of the epic_adventures category
NextEpic ==
    \/ EpicSelect
    \/ EpicInsert
    \/ EpicStartSend
    \/ EpicCheckSelect
    \/ EpicProcess
    \/ EpicItems
    \/ EpicMark
    \/ EpicCheckSend

Next ==
    \/ Tick
    \/ \E p \in Users : SetOnline(p)
    \/ NextAdventures
    \/ NextEpic

Spec == Init /\ [][Next]_vars

\* The completion jobs keep ticking: tasks.loop re-arms level_up_check and
\* check_epic_completions after every tick, so a tick that has work to do
\* again and again starts, and a started tick runs to its end.
JobsKeepTicking ==
    /\ SF_vars(LevelUpSelect)
    /\ WF_vars(LevelUpReward)
    /\ WF_vars(LevelUpMark)
    /\ WF_vars(LevelUpItem)
    /\ WF_vars(LevelUpSend)
    /\ SF_vars(EpicCheckSelect)
    /\ WF_vars(EpicProcess)
    /\ WF_vars(EpicItems)
    /\ WF_vars(EpicMark)
    /\ WF_vars(EpicCheckSend)
FairSpec == Init /\ [][Next]_vars /\ JobsKeepTicking

\* the epic jobs together with the bless command and the team battle
\* rewards, on a server whose members stay online
InitBonus ==
    /\ category = "epic_adventures"
    /\ InitStore(Users)
    /\ \A p \in Users : online[p]
NextBonus ==
    \/ Tick
    \/ NextEpic
    \/ \E p \in Users : Bless(p)
    \/ \E p \in Users, is_winner \in BOOLEAN : apply_team_rewards(p, is_winner)
SpecBonus == InitBonus /\ [][NextBonus]_vars

\* the raid job and the daily command on the smallest server a raid starts
\* on, every member online
InitRaid ==
    /\ category = "raids"
    /\ InitStore(Players)
    /\ \A p \in Players : online[p]
NextRaid ==
    \/ AutoRaidsTick
    \/ RaidAnnounce
    \/ RaidBattle
    \/ RaidNarrative
    \/ RaidOutcome
    \/ RaidReport
    \/ \E p \in Users : daily(p, 100)
SpecRaid == InitRaid /\ [][NextRaid]_vars

\* The raid job keeps running: tasks.loop re-arms auto_raids after every
\* tick, and the event loop resumes a raid that waits at a send or a sleep.
RaidJobKeepsRunning ==
    /\ WF_vars(AutoRaidsTick)
    /\ WF_vars(RaidAnnounce)
    /\ WF_vars(RaidBattle)
    /\ WF_vars(RaidNarrative)
    /\ WF_vars(RaidOutcome)
    /\ WF_vars(RaidReport)
FairSpecRaid == InitRaid /\ [][NextRaid]_vars /\ RaidJobKeepsRunning

\* ------------------------------------------- the dynamic-interval jobs
\* One run of auto_adventure_loop and of auto_battle_loop each, from the
\* tick to the end of the function, taken as one step.

\* random.randint(lo, hi) of the job's re-arm lines
IntervalRange(j) ==
    IF j = "auto_adventure_loop" THEN AdvIntervalMin..AdvIntervalMax
    ELSE BattleIntervalMin..BattleIntervalMax

\* the lines after the try/except of a job: next_interval =
\* random.randint(lo, hi) * 60; change_interval(seconds=next_interval)
Rearm(j) ==
    \E m \in IntervalRange(j) :
        /\ interval' = [interval EXCEPT ![j] = m * 60]
        /\ interval_changed' = [interval_changed EXCEPT ![j] = TRUE]

\* `return` inside the try block: the function ends there and the lines
\* after the try/except are not run
ReturnsInsideTry(j) ==
    /\ interval_changed' = [interval_changed EXCEPT ![j] = FALSE]
    /\ UNCHANGED interval

\* the INSERTs of `for char in selected`, in the order of the sample
RECURSIVE InsertAdventures(_, _, _)
InsertAdventures(table, selected, duration) ==
    IF selected = {} THEN table
    ELSE LET c == CHOOSE x \in selected : \A y \in selected : x <= y
         IN  InsertAdventures(
                 Append(table,
                     [user_id |-> c,
                      adventure_name |-> CHOOSE n \in adventure_types : TRUE,
                      started_at |-> now, finish_at |-> now + duration[c],
                      status |-> "active"]),
                 selected \ {c}, duration)

AdventureLoopRun ==
    /\ category = "timers"
    /\ cpu = "none"
    /\ "auto_adventure_loop" \in running
    /\ \E channel \in BOOLEAN :
        IF ~channel \/ available_chars = {}
        THEN /\ ReturnsInsideTry("auto_adventure_loop")
             /\ UNCHANGED <<adventures, advRewards>>
        ELSE /\ \E n \in AdvBatchMin..AdvBatchMax :
                \E selected \in SUBSET available_chars :
                \E duration \in [selected -> Durations] :
                   /\ Cardinality(selected)
                         = Min(n, Cardinality(available_chars))
                   /\ adventures' =
                         InsertAdventures(adventures, selected, duration)
                   /\ advRewards' =
                         advRewards \o [k \in 1..Cardinality(selected) |-> 0]
             /\ Rearm("auto_adventure_loop")
    /\ UNCHANGED <<outsideTimers, profileVars, RACES, blessVars,
                   advProcVars, lvVars, cancelVars>>

\* run_1v1_battle: level_range = (level // 5) * 5
level_range(p) == (level[p] \div 5) * 5
\* the pairs of fighters run_1v1_battle can draw: two characters of one
\* level group
FighterPairs(chars) ==
    {pair \in chars \X chars :
        pair[1] # pair[2] /\ level_range(pair[1]) = level_range(pair[2])}

\* the draws of base_winner_xp, base_loser_xp and base_winner_gold, at
\* their lower ends
DUEL_BASE == [winner_xp |-> 50, loser_xp |-> 10, winner_gold |-> 100]

\* run_1v1_battle from the multipliers to the two update_character calls:
\* both fighters are human, so winner_multipliers and loser_multipliers are
\* one dict, multiplied in place by the blessing bonuses of both
DuelRewards(winner, loser) ==
    LET winner_blessings == get_active_blessings(winner)
        loser_blessings == get_active_blessings(loser)
        w_xp_gain == (get_race_multipliers(winner).xp_gain
                        * winner_blessings.xp_mult) \div 100
        gold_find == (get_race_multipliers(winner).gold_find
                        * winner_blessings.gold_mult) \div 100
        xp_gain == (w_xp_gain * loser_blessings.xp_mult) \div 100
    IN  /\ RACES' = [RACES EXCEPT ![Race(winner)] =
              [xp_gain |-> xp_gain, gold_find |-> gold_find]]
        /\ blessings' =
              {b \in blessings :
                  ~(b.user_id \in {winner, loser} /\ b.expires_at <= now)}
        /\ xp' = [xp EXCEPT
              ![winner] = @ + (DUEL_BASE.winner_xp * xp_gain) \div 100,
              ![loser] = @ + (DUEL_BASE.loser_xp * xp_gain) \div 100]
        /\ money' = [money EXCEPT
              ![winner] = @ + (DUEL_BASE.winner_gold * gold_find) \div 100]
        /\ UNCHANGED <<level, completed>>

BattleLoopRun ==
    /\ category = "timers"
    /\ cpu = "none"
    /\ "auto_battle_loop" \in running
    /\ \E channel \in BOOLEAN :
        IF ~channel \/ Cardinality(available_chars) < 2
        THEN /\ ReturnsInsideTry("auto_battle_loop")
             /\ UNCHANGED <<profileVars, RACES, blessings>>
        ELSE /\ IF FighterPairs(available_chars) = {}
                THEN \* run_1v1_battle returns: no valid group
                     UNCHANGED <<profileVars, RACES, blessings>>
                ELSE \E pair \in FighterPairs(available_chars) :
                        DuelRewards(pair[1], pair[2])
             /\ Rearm("auto_battle_loop")
    /\ UNCHANGED <<outsideTimers, favor, teamRewards, advVars>>

InitTimers ==
    /\ category = "timers"
    /\ InitStore(Users)
NextTimers ==
    \/ \E p \in Users : SetOnline(p)
    \/ AdventureLoopRun
    \/ BattleLoopRun
SpecTimers == InitTimers /\ [][NextTimers]_vars
\* ------------------------------------------ auto_battle_loop, step by step
outsideBattle == <<category, now, online, advVars, epicVars, raidVars,
                   running, aborted, timerVars, itemVars, powerLog, bagVars,
                   resolved, favor,
                   teamRewards>>

\* a battle whose `await self.apply_team_rewards(...)` would suspend
TeamRewardAwaits == "none"
\* apply_team_rewards has no await inside: awaiting it does not suspend, and
\* auto_battle_loop keeps the event loop from the power calculation to the
\* last member's reward
TeamRewardHolds == "battle"

\* auto_battle_loop draws 3v3: random.sample(chars, 6), team_a, team_b, and
\* `await channel.send(embed=battle_embed)`
BattleStart ==
    /\ category = "battles"
    /\ cpu = "none"
    /\ btPc = "idle"
    /\ "auto_battle_loop" \in running
    /\ battlesRun < MaxBattles
    /\ Cardinality(available_chars) >= 2 * TeamSize
    /\ \E team_a \in SUBSET available_chars :
       \E team_b \in SUBSET (available_chars \ team_a) :
          /\ Cardinality(team_a) = TeamSize
          /\ Cardinality(team_b) = TeamSize
          /\ btWinners' = team_a
          /\ btLosers' = team_b
    /\ btPc' = "narrative"
    /\ btTodo' = {}
    /\ btPaid' = {}
    /\ battlesRun' = battlesRun + 1
    /\ UNCHANGED <<outsideBattle, profileVars, RACES, blessings, cpu>>

\* the sends, sleeps and edits of the narrative return and the winning team
\* is drawn from the team powers, or one of them raises into the job's
\* `except Exception`
BattleNarrative ==
    /\ cpu = "none"
    /\ btPc = "narrative"
    /\ \E outcome \in {"returns", "raises"}, team_a_wins \in BOOLEAN :
        IF outcome = "returns"
        THEN /\ btWinners' = IF team_a_wins THEN btWinners ELSE btLosers
             /\ btLosers' = IF team_a_wins THEN btLosers ELSE btWinners
             /\ btTodo' = btWinners \cup btLosers
             /\ btPc' = "rewards"
             /\ cpu' = TeamRewardHolds
        ELSE /\ btPc' = "idle"
             /\ UNCHANGED <<btWinners, btLosers, btTodo, cpu>>
    /\ UNCHANGED <<outsideBattle, profileVars, RACES, blessings, btPaid,
                   battlesRun>>

\* `for member in winning_team`, then `for member in losing_team`
NextMember ==
    LET team == IF btTodo \cap btWinners # {} THEN btTodo \cap btWinners
                ELSE btTodo
    IN  CHOOSE m \in team : \A o \in team : m <= o

\* one `await self.apply_team_rewards(member, "3v3", is_winner)`: the
\* multipliers, update_character, then the item draw, where
\* create_item_in_db may raise
BattleReward ==
    /\ cpu = TeamRewardHolds
    /\ btPc = "rewards"
    /\ btTodo # {}
    /\ LET member == NextMember
           is_winner == member \in btWinners
           blessing_bonuses == get_active_blessings(member)
           xp_gain == (get_race_multipliers(member).xp_gain
                          * blessing_bonuses.xp_mult) \div 100
           gold_find == (get_race_multipliers(member).gold_find
                            * blessing_bonuses.gold_mult) \div 100
           xp_reward == ((IF is_winner THEN TEAM_BASE.winner_xp
                          ELSE TEAM_BASE.loser_xp) * xp_gain) \div 100
           gold_reward == IF is_winner
                          THEN (TEAM_BASE.winner_gold * gold_find) \div 100
                          ELSE 0
       IN  /\ blessings' = CleanExpired(member)
           /\ RACES' = [RACES EXCEPT ![Race(member)] =
                           [xp_gain |-> xp_gain, gold_find |-> gold_find]]
           /\ xp' = [xp EXCEPT ![member] = @ + xp_reward]
           /\ money' = [money EXCEPT ![member] = @ + gold_reward]
           /\ btPaid' = btPaid \cup {member}
           /\ \E outcome \in {"returns", "raises"} :
                IF outcome = "raises"
                THEN /\ btPc' = "idle"
                     /\ btTodo' = {}
                     /\ cpu' = "none"
                ELSE /\ btTodo' = btTodo \ {member}
                     /\ IF btTodo = {member}
                        THEN /\ btPc' = "final"
                             /\ cpu' = "none"
                        ELSE /\ cpu' = TeamRewardHolds
                             /\ UNCHANGED btPc
    /\ UNCHANGED <<outsideBattle, level, completed, btWinners, btLosers,
                   battlesRun>>

\* `await battle_message.edit(embed=battle_embed)` (or the send of the 1v1
\* result) returns or raises; the tick ends
BattleFinal ==
    /\ cpu = "none"
    /\ btPc = "final"
    /\ btPc' = "idle"
    /\ UNCHANGED <<outsideBattle, profileVars, RACES, blessings, cpu,
                   btWinners, btLosers, btTodo, btPaid, battlesRun>>

\* auto_battle_loop draws 1v1: run_1v1_battle up to its send; simulate_battle
\* has no await inside
DuelRun ==
    /\ category = "battles"
    /\ cpu = "none"
    /\ btPc = "idle"
    /\ "auto_battle_loop" \in running
    /\ battlesRun < MaxBattles
    /\ \E pair \in FighterPairs(available_chars) :
        /\ DuelRewards(pair[1], pair[2])
        /\ btWinners' = {pair[1]}
        /\ btLosers' = {pair[2]}
        /\ btPaid' = {pair[1], pair[2]}
    \* the item draws return, or create_item_in_db raises
    /\ \E outcome \in {"returns", "raises"} :
        btPc' = IF outcome = "returns" THEN "final" ELSE "idle"
    /\ battlesRun' = battlesRun + 1
    /\ UNCHANGED <<outsideBattle, cpu, btTodo>>

\* ----------------------------------------------- stopping and starting jobs
\* a tick of the job is in flight
InFlight(j) ==
    CASE j = "auto_adventure_loop" -> advPc["loop"] # "idle"
      [] j = "level_up_check" -> lvPc # "idle"
      [] j = "auto_battle_loop" -> btPc # "idle"
      [] j = "auto_epic_adventures" -> epPc # "idle"
      [] j = "check_epic_completions" -> ecPc # "idle"
      [] OTHER -> FALSE

\* Loop.cancel() on each of the loops: the loop stops and CancelledError is
\* thrown into its task at the await where it is parked; the jobs' `except
\* Exception` does not catch it.  The caller is a command or an unload, which
\* runs when no other coroutine is inside a synchronous section.
Cancelled(loops) ==
    /\ cpu = "none"
    /\ running' = running \ loops
    /\ aborted' = {j \in loops : InFlight(j)}
    /\ advPc' = [advPc EXCEPT !["loop"] =
                    IF "auto_adventure_loop" \in loops THEN "idle" ELSE @]
    /\ advSel' = [advSel EXCEPT !["loop"] =
                    IF "auto_adventure_loop" \in loops THEN {} ELSE @]
    /\ lvPc' = IF "level_up_check" \in loops THEN "idle" ELSE lvPc
    /\ lvTodo' = IF "level_up_check" \in loops THEN {} ELSE lvTodo
    /\ lvCur' = IF "level_up_check" \in loops THEN 0 ELSE lvCur
    /\ btPc' = IF "auto_battle_loop" \in loops THEN "idle" ELSE btPc
    /\ btTodo' = IF "auto_battle_loop" \in loops THEN {} ELSE btTodo
    /\ epPc' = IF "auto_epic_adventures" \in loops THEN "idle" ELSE epPc
    /\ epSel' = IF "auto_epic_adventures" \in loops THEN {} ELSE epSel
    /\ ecPc' = IF "check_epic_completions" \in loops THEN "idle" ELSE ecPc
    /\ ecTodo' = IF "check_epic_completions" \in loops THEN {} ELSE ecTodo
    /\ ecCur' = IF "check_epic_completions" \in loops THEN 0 ELSE ecCur
    /\ UNCHANGED <<category, now, online, profileVars, RACES, cpu,
                   adventures, advRewards, cancelVars, epic_adventures,
                   epicRewards, blessVars, raidVars, timerVars, itemVars,
                   powerLog, bagVars, resolved,
                   btWinners, btLosers, btPaid, battlesRun>>

\* Loop.start() on each of the loops
Started(loops) ==
    /\ cpu = "none"
    /\ running' = running \cup loops
    /\ UNCHANGED <<category, now, online, profileVars, RACES, cpu, advVars,
                   epicVars, blessVars, raidVars, aborted, timerVars,
                   battleVars, itemVars, powerLog, bagVars, resolved>>

\* the loops `autoplay stop` cancels and `autoplay start` starts
CommandLoops == {"auto_adventure_loop", "auto_battle_loop",
                 "auto_events_loop", "level_up_check"}

\* the autoplay command, action "stop" and action "start"
autoplay_stop == Cancelled(CommandLoops)
autoplay_start ==
    /\ ~(CommandLoops \subseteq running)
    /\ Started(CommandLoops)

\* AutoPlayCog.cog_unload, and cog_load when the cog is loaded again
autoplay_cog_unload == Cancelled(AutoplayLoops)
autoplay_cog_load ==
    /\ running \cap AutoplayLoops = {}
    /\ Started(AutoplayLoops)

\* EpicAdventuresCog.cog_unload and cog_load
epic_cog_unload == Cancelled(EpicLoops \cap running)
epic_cog_load ==
    /\ ~(EpicLoops \subseteq running)
    /\ Started(EpicLoops)

\* the jobs with the stop, start, unload and load steps, every member online
InitStop ==
    \/ /\ category \in {"adventures", "epic_adventures"}
       /\ InitStore(Users)
       /\ \A p \in Users : online[p]
    \/ /\ category = "battles"
       /\ InitStore(Fighters)
       /\ \A p \in Fighters : online[p]
NextStop ==
    \/ Tick
    \/ AdvSelect("loop")
    \/ AdvInsert("loop")
    \/ AdvSend("loop")
    \/ LevelUpSelect
    \/ LevelUpReward
    \/ LevelUpMark
    \/ LevelUpItem
    \/ LevelUpSend
    \/ NextEpic
    \/ BattleStart
    \/ BattleNarrative
    \/ BattleReward
    \/ BattleFinal
    \/ DuelRun
    \/ autoplay_stop
    \/ autoplay_start
    \/ autoplay_cog_unload
    \/ autoplay_cog_load
    \/ epic_cog_unload
    \/ epic_cog_load
SpecStop == InitStop /\ [][NextStop]_vars

\* ------------------------------------------------------------ items

\* the default budget of generate_item
DefaultMinStat == 4
DefaultMaxStat == 50
\* the materials a profile holds when the blacksmith is first visited
MaxMaterials == 6

\* a part of ItemType: pure damage, balanced, and three kinds of armour
ItemTypes == {"Dagger", "Axe", "Hammer", "Helmet", "Gauntlets", "Chestplate"}
\* ItemRarity, in ascending order
Rarities == <<"common", "uncommon", "rare", "magic", "legendary", "mythic",
              "divine">>
Tiers == {Rarities[i] : i \in DOMAIN Rarities}
Rank(r) == CHOOSE i \in DOMAIN Rarities : Rarities[i] = r

\* ItemRarity.get_stat_range
get_stat_range(r) ==
    CASE r = "common" -> <<1, 9>>
      [] r = "uncommon" -> <<10, 19>>
      [] r = "rare" -> <<20, 29>>
      [] r = "magic" -> <<30, 39>>
      [] r = "legendary" -> <<40, 44>>
      [] r = "mythic" -> <<45, 49>>
      [] r = "divine" -> <<50, 50>>
      [] OTHER -> <<1, 9>>

\* ItemRarity.get_material_tier
get_material_tier(r) ==
    IF r \in {"common", "uncommon"} THEN "scrap"
    ELSE IF r \in {"rare", "magic"} THEN "dust"
    ELSE "essence"

\* ItemGenerator.get_type_stats, the ratios in hundredths
get_type_stats(item_type) ==
    CASE item_type = "Dagger" -> [damage |-> 85, armor |-> 15]
      [] item_type = "Axe" -> [damage |-> 90, armor |-> 10]
      [] item_type = "Hammer" -> [damage |-> 60, armor |-> 40]
      [] item_type = "Sword" -> [damage |-> 80, armor |-> 20]
      [] item_type = "Greatsword" -> [damage |-> 85, armor |-> 15]
      [] item_type = "Shield" -> [damage |-> 10, armor |-> 90]
      [] item_type = "Helmet" ->
             [armor |-> 40, luck |-> 30, magic |-> 20, health |-> 10]
      [] item_type = "Chestplate" ->
             [armor |-> 50, health |-> 40, speed |-> 10]
      [] item_type = "Gauntlets" ->
             [armor |-> 30, crit |-> 40, speed |-> 20, magic |-> 10]
      [] OTHER -> [damage |-> 50, armor |-> 50]

\* int(total * ratio): for the ratios above and every total up to 60 the
\* double product truncates to the same integer as the exact quotient
allocated_points(total, stat_ratios, stat) ==
    IF stat \in DOMAIN stat_ratios
    THEN (total * stat_ratios[stat]) \div 100
    ELSE 0

\* the stat fields generate_item gives a new item; luck_bonus and crit_bonus
\* hold allocated_points / 100.0 and are kept here in hundredths
generated_stats(item_type, total_stats) ==
    LET stat_ratios == get_type_stats(item_type)
        points(stat) == allocated_points(total_stats, stat_ratios, stat)
    IN  [type |-> item_type,
         damage |-> points("damage"),
         armor |-> points("armor"),
         health_bonus |-> points("health"),
         speed_bonus |-> points("speed"),
         luck_bonus |-> points("luck"),
         crit_bonus |-> points("crit"),
         magic_bonus |-> points("magic"),
         upgrade_level |-> 0]

\* the stat fields reroll_item returns for a new total
new_stats(item_type, new_total) ==
    LET stat_ratios == get_type_stats(item_type)
        points(stat) == allocated_points(new_total, stat_ratios, stat)
    IN  [damage |-> points("damage"),
         armor |-> points("armor"),
         health_bonus |-> points("health"),
         speed_bonus |-> points("speed"),
         luck_bonus |-> points("luck"),
         crit_bonus |-> points("crit"),
         magic_bonus |-> points("magic")]

\* int(x * 100) of a bonus stored as n / 100.0: the double product falls
\* just short of n for three values of n up to 100
IntOfPercent(n) == IF n \in {29, 57, 58} THEN n - 1 ELSE n

\* Item.stat_total
stat_total(it) ==
    it.damage + it.armor + it.health_bonus + it.speed_bonus
        + IntOfPercent(it.luck_bonus) + IntOfPercent(it.crit_bonus)
        + it.magic_bonus

\* the stat totals the classifier is examined on
MaxStatTotal == 60

\* a classifier whose mythic tier starts one point late
RarityOfLate(total) ==
    IF total >= 50 THEN "divine"
    ELSE IF total > 45 THEN "mythic"
    ELSE IF total >= 40 THEN "legendary"
    ELSE IF total >= 30 THEN "magic"
    ELSE IF total >= 20 THEN "rare"
    ELSE IF total >= 10 THEN "uncommon"
    ELSE "common"

\* Item.rarity as a function of the stat total
RarityOf(total) ==
    IF total >= 50 THEN "divine"
    ELSE IF total >= 45 THEN "mythic"
    ELSE IF total >= 40 THEN "legendary"
    ELSE IF total >= 30 THEN "magic"
    ELSE IF total >= 20 THEN "rare"
    ELSE IF total >= 10 THEN "uncommon"
    ELSE "common"

\* Item.rarity
rarity(it) == RarityOf(stat_total(it))

\* BlacksmithCog._get_item_rarity, on the row read from the table
get_item_rarity(row) ==
    LET total == row.damage + row.armor + row.health_bonus + row.speed_bonus
                     + IntOfPercent(row.luck_bonus)
                     + IntOfPercent(row.crit_bonus) + row.magic_bonus
    IN  IF total >= 50 THEN "divine"
        ELSE IF total >= 45 THEN "mythic"
        ELSE IF total >= 40 THEN "legendary"
        ELSE IF total >= 30 THEN "magic"
        ELSE IF total >= 20 THEN "rare"
        ELSE IF total >= 10 THEN "uncommon"
        ELSE "common"

\* a display that puts an item of exactly 50 points one tier lower
DisplayedTierOff(total_stats) ==
    IF total_stats > 50 THEN "Divine"
    ELSE IF total_stats >= 45 THEN "Mythic"
    ELSE IF total_stats >= 40 THEN "Legendary"
    ELSE IF total_stats >= 30 THEN "Magic"
    ELSE IF total_stats >= 20 THEN "Rare"
    ELSE IF total_stats >= 10 THEN "Uncommon"
    ELSE "Common"

\* the rarity the item command of the inventory puts in its embed
DisplayedTier(total_stats) ==
    IF total_stats >= 50 THEN "Divine"
    ELSE IF total_stats >= 45 THEN "Mythic"
    ELSE IF total_stats >= 40 THEN "Legendary"
    ELSE IF total_stats >= 30 THEN "Magic"
    ELSE IF total_stats >= 20 THEN "Rare"
    ELSE IF total_stats >= 10 THEN "Uncommon"
    ELSE "Common"

\* str.title() on the value of an ItemRarity, as the blacksmith embeds show it
Title(r) ==
    CASE r = "common" -> "Common"
      [] r = "uncommon" -> "Uncommon"
      [] r = "rare" -> "Rare"
      [] r = "magic" -> "Magic"
      [] r = "legendary" -> "Legendary"
      [] r = "mythic" -> "Mythic"
      [] r = "divine" -> "Divine"

REROLL_COSTS == [scrap |-> 3, dust |-> 3, essence |-> 2]

outsideItems == <<now, online, profileVars, RACES, cpu, advVars, epicVars,
                  blessVars, raidVars, running, aborted, timerVars,
                  battleVars, powerLog, bagVars, resolved>>

\* the totals generate_item draws from: random.randint(max(4, min_stat),
\* max_stat), the budget being the forced rarity's range when one is given
generation_totals(forced) ==
    LET range == IF forced = "none"
                 THEN <<DefaultMinStat, DefaultMaxStat>>
                 ELSE get_stat_range(forced)
        low == IF range[1] > 4 THEN range[1] ELSE 4
    IN  low..range[2]

\* ItemGenerator.generate_item for a chosen type, with a forced rarity or
\* ("none") with the default budget; the item becomes a row of the table
generate_item(item_type, forced) ==
    /\ category = "items"
    /\ item = NoItem
    /\ \E total_stats \in generation_totals(forced) :
           /\ item' = generated_stats(item_type, total_stats)
           /\ resolved' = [fn |-> "generate_item", rarity |-> forced,
                           total_stats |-> total_stats]
    /\ UNCHANGED <<category, materials, shown, rfSession, upSession, now,
                   online, profileVars, RACES, cpu, advVars, epicVars,
                   blessVars, raidVars, running, aborted, timerVars,
                   battleVars, powerLog, bagVars>>

\* the rarity the item command derives from the row it read
DisplayedRarity(row) ==
    DisplayedTier(row.damage + row.armor + row.health_bonus + row.speed_bonus
                      + IntOfPercent(row.luck_bonus)
                      + IntOfPercent(row.crit_bonus) + row.magic_bonus)

\* the item command of the inventory
item_command ==
    /\ category = "items"
    /\ item # NoItem
    /\ shown' = DisplayedRarity(item)
    /\ UNCHANGED <<category, item, materials, rfSession, upSession,
                   outsideItems>>

\* reforge up to its confirmation prompt: the row, its rarity and the
\* materials are read here
ReforgeAsk ==
    /\ category = "items"
    /\ item # NoItem
    /\ rfSession = NoSession
    /\ LET r == get_item_rarity(item)
           material_type == get_material_tier(r)
           cost == REROLL_COSTS[material_type]
           current_materials == materials[material_type]
       IN  /\ current_materials >= cost
           /\ rfSession' = [pc |-> "confirm", item |-> item, rarity |-> r,
                            material_type |-> material_type, cost |-> cost,
                            current_materials |-> current_materials]
    /\ UNCHANGED <<category, item, materials, shown, upSession,
                   outsideItems>>

\* ItemGenerator.reroll_item on the Item built from the row read earlier
reroll_item(row) ==
    LET range == get_stat_range(rarity(row))
    IN  {new_stats(row.type, new_total) : new_total \in range[1]..range[2]}

\* the row after UPDATE inventory SET <the stat columns> WHERE id
Rerolled(row, stats) ==
    [type |-> row.type,
     damage |-> stats.damage,
     armor |-> stats.armor,
     health_bonus |-> stats.health_bonus,
     speed_bonus |-> stats.speed_bonus,
     luck_bonus |-> stats.luck_bonus,
     crit_bonus |-> stats.crit_bonus,
     magic_bonus |-> stats.magic_bonus,
     upgrade_level |-> row.upgrade_level]

\* reforge after its confirmation prompt
ReforgeConfirm(confirmed) ==
    /\ category = "items"
    /\ rfSession # NoSession
    /\ rfSession' = NoSession
    /\ IF confirmed
       THEN /\ materials' = [materials EXCEPT ![rfSession.material_type] =
                                 rfSession.current_materials - rfSession.cost]
            /\ \E stats \in reroll_item(rfSession.item) :
                   item' = Rerolled(item, stats)
       ELSE UNCHANGED <<item, materials>>
    /\ UNCHANGED <<category, shown, upSession, outsideItems>>

InitItems ==
    /\ category = "items"
    /\ InitCore(Users)
    /\ online = [p \in Users |-> TRUE]
    /\ item = NoItem
    /\ materials = [m \in {"scrap", "dust", "essence"} |-> MaxMaterials]
    /\ shown = "none"
    /\ rfSession = NoSession
    /\ upSession = [s \in Sessions |-> NoSession]
NextItems ==
    \/ \E item_type \in ItemTypes, forced \in Tiers \cup {"none"} :
           generate_item(item_type, forced)
    \/ item_command
    \/ ReforgeAsk
    \/ \E confirmed \in BOOLEAN : ReforgeConfirm(confirmed)
SpecItems == InitItems /\ [][NextItems]_vars

\* ------------------------------------------------------------ upgrades

\* the highest upgrade level
MaxUpgradeLevel == 10

UPGRADE_COSTS ==
    <<[low |-> 1, high |-> 3, costs |-> [scrap |-> 1, dust |-> 1, essence |-> 1]],
      [low |-> 4, high |-> 6, costs |-> [scrap |-> 2, dust |-> 2, essence |-> 1]],
      [low |-> 7, high |-> 9, costs |-> [scrap |-> 3, dust |-> 3, essence |-> 2]],
      [low |-> 10, high |-> 10,
       costs |-> [scrap |-> 5, dust |-> 5, essence |-> 3]]>>
\* the success rates in percent
UPGRADE_SUCCESS_RATES ==
    <<[low |-> 1, high |-> 3, rate |-> 100],
      [low |-> 4, high |-> 6, rate |-> 70],
      [low |-> 7, high |-> 9, rate |-> 40],
      [low |-> 10, high |-> 10, rate |-> 10]>>

\* BlacksmithCog._get_upgrade_cost
get_upgrade_cost(target_level, material_type) ==
    LET hits == {i \in DOMAIN UPGRADE_COSTS :
                    /\ UPGRADE_COSTS[i].low <= target_level
                    /\ target_level <= UPGRADE_COSTS[i].high}
    IN  IF hits = {} THEN 1
        ELSE UPGRADE_COSTS[CHOOSE i \in hits : TRUE].costs[material_type]

\* BlacksmithCog._get_upgrade_success_rate
get_upgrade_success_rate(target_level) ==
    LET hits == {i \in DOMAIN UPGRADE_SUCCESS_RATES :
                    /\ UPGRADE_SUCCESS_RATES[i].low <= target_level
                    /\ target_level <= UPGRADE_SUCCESS_RATES[i].high}
    IN  IF hits = {} THEN 100
        ELSE UPGRADE_SUCCESS_RATES[CHOOSE i \in hits : TRUE].rate

\* a multiplier that does not depend on the level
upgrade_multiplier_flat(upgrade_level) == 105

\* Item._get_upgrade_multiplier, 1.0 + 0.05 * upgrade_level, in hundredths
upgrade_multiplier(upgrade_level) == 100 + 5 * upgrade_level

\* the base values and levels at which the double product base * multiplier
\* lies just below the integer the exact product is (45 * 1.4 = 62.99...);
\* the only such pair for bases up to 61 and levels up to 11
FloatShort == {<<45, 8>>}

\* a transform that rounds to the nearest integer
effective_rounded(base, upgrade_level) ==
    (base * upgrade_multiplier(upgrade_level) + 50) \div 100

\* int(base * multiplier): Item.effective_damage and the other integer
\* fields, and the preview of the upgrade command
effective(base, upgrade_level) ==
    LET exact == (base * upgrade_multiplier(upgrade_level)) \div 100
    IN  IF <<base, upgrade_level>> \in FloatShort THEN exact - 1 ELSE exact

\* Item.effective_luck_bonus and effective_crit_bonus: the product itself,
\* not truncated; in units of 1/10000
effective_percent(bonus, upgrade_level) ==
    bonus * upgrade_multiplier(upgrade_level)

\* the stat fields that hold integers
IntFields == {"damage", "armor", "health_bonus", "speed_bonus", "magic_bonus"}
PercentFields == {"luck_bonus", "crit_bonus"}

\* the effective value of an integer stat field of an item
effective_stat(it, field) == effective(it[field], it.upgrade_level)

\* a guard that lets level 10 through
MaxedOutLate(current_level) == current_level > 10

\* the upgrade command's test for an item at the highest level
MaxedOut(current_level) == current_level >= 10

\* the rows the inventory can hold when the blacksmith is visited
StoredItems ==
    {[generated_stats(item_type, total_stats) EXCEPT !.upgrade_level = l] :
        item_type \in ItemTypes,
        total_stats \in DefaultMinStat..DefaultMaxStat,
        l \in 0..MaxUpgradeLevel}

\* upgrade up to its confirmation prompt
UpgradeAsk(s) ==
    /\ category \in {"upgrades", "gear"}
    /\ item # NoItem
    /\ upSession[s] = NoSession
    /\ LET current_level == item.upgrade_level
           target_level == current_level + 1
           material_type == get_material_tier(get_item_rarity(item))
           cost == get_upgrade_cost(target_level, material_type)
           current_materials == materials[material_type]
       IN  /\ ~MaxedOut(current_level)
           /\ current_materials >= cost
           /\ upSession' = [upSession EXCEPT ![s] =
                  [pc |-> "confirm",
                   current_level |-> current_level,
                   target_level |-> target_level,
                   material_type |-> material_type,
                   cost |-> cost,
                   current_materials |-> current_materials,
                   effective_damage |-> effective(item.damage, current_level),
                   new_effective_damage |->
                       effective(item.damage, target_level)]]
    /\ UNCHANGED <<category, item, materials, shown, rfSession, outsideItems>>

\* upgrade after its confirmation prompt; success = random.random() < rate
UpgradeConfirm(s, confirmed, success) ==
    /\ category \in {"upgrades", "gear"}
    /\ upSession[s] # NoSession
    /\ upSession' = [upSession EXCEPT ![s] = NoSession]
    /\ LET u == upSession[s]
           success_rate == get_upgrade_success_rate(u.target_level)
       IN  IF ~confirmed
           THEN UNCHANGED <<item, materials>>
           ELSE /\ success => success_rate > 0
                /\ ~success => success_rate < 100
                /\ materials' = [materials EXCEPT ![u.material_type] =
                                     u.current_materials - u.cost]
                /\ IF success
                   THEN item' = [item EXCEPT !.upgrade_level = u.target_level]
                   ELSE IF u.target_level = 10
                   THEN item' = [item EXCEPT !.upgrade_level = 0]
                   ELSE IF u.target_level >= 7
                   THEN item' = [item EXCEPT !.upgrade_level =
                                     IF u.current_level - 1 > 0
                                     THEN u.current_level - 1 ELSE 0]
                   ELSE item' = item
    /\ UNCHANGED <<category, shown, rfSession, outsideItems>>

InitUpgrade ==
    /\ category = "upgrades"
    /\ InitCore(Users)
    /\ online = [p \in Users |-> TRUE]
    /\ item \in StoredItems
    /\ materials = [m \in {"scrap", "dust", "essence"} |-> MaxMaterials]
    /\ shown = "none"
    /\ rfSession = NoSession
    /\ upSession = [s \in Sessions |-> NoSession]
NextUpgrade ==
    \/ \E s \in Sessions : UpgradeAsk(s)
    \/ \E s \in Sessions, confirmed \in BOOLEAN, success \in BOOLEAN :
           UpgradeConfirm(s, confirmed, success)
SpecUpgrade == InitUpgrade /\ [][NextUpgrade]_vars

\* ------------------------------------------------------------ power

\* how many power calculations a behaviour follows
MaxPowerCalls == 2
\* random.randint(-20, 20)
Jitter == 20
\* the draws followed: both ends and the middle of the range
JitterDraws == {0 - Jitter, 0, Jitter}

\* ReligionCog.bless: the valor blessing
VALOR == [cost |-> 45, effect |-> "battle_mult", value |-> 125]

\* get_equipped_items: the first user wears the item that is followed
get_equipped_items(p) == IF p = 1 /\ item # NoItem THEN {item} ELSE {}

RECURSIVE SumOver(_, _)
SumOver(rows, field) ==
    IF rows = {} THEN 0
    ELSE LET r == CHOOSE x \in rows : TRUE
         IN  r[field] + SumOver(rows \ {r}, field)

\* the sum over the rows of int(bonus * 100)
RECURSIVE SumPoints(_, _)
SumPoints(rows, field) ==
    IF rows = {} THEN 0
    ELSE LET r == CHOOSE x \in rows : TRUE
         IN  IntOfPercent(r[field]) + SumPoints(rows \ {r}, field)

\* int(x / 100) for an x in hundredths: int() truncates towards zero
IntOfHundredths(x) == IF x >= 0 THEN x \div 100 ELSE 0 - ((0 - x) \div 100)

\* the value AutoplayCog.calculate_battle_power returns when randint
\* gives the draw
autoplay_power(p, draw) ==
    LET char_items == get_equipped_items(p)
        base_power == level[p] * 10 + SumOver(char_items, "damage")
                          + SumOver(char_items, "armor") + draw
    IN  IntOfHundredths(base_power * BlessingMult(p, "battle_mult"))

\* the power simulate_battle of the autoplay cog gives one fighter
simulate_power(p, draw) ==
    LET items == get_equipped_items(p)
        equipment == SumOver(items, "damage") + SumOver(items, "armor")
        armor_bonuses ==
            SumOver(items, "health_bonus") + SumOver(items, "speed_bonus")
                + SumPoints(items, "luck_bonus")
                + SumPoints(items, "crit_bonus")
                + SumOver(items, "magic_bonus")
    IN  level[p] * 10 + equipment + armor_bonuses + draw

\* the luck column of a profile, in hundredths: a character starts with 1.0
BaseLuck == 100
luck_column(p) == BaseLuck

\* active["luck"] of get_active_blessings, in hundredths: it starts at 1.0
\* and every active luck blessing adds its value
active_luck(p) ==
    100 + SumOver({b \in ActiveBlessings(p) : b.effect = "luck"}, "value")

\* base_power + equipment_power + class_bonus of calculate_battle_power
unscaled_power(p) ==
    LET items == get_equipped_items(p)
        base_power == level[p] * 5
        equipment_power ==
            SumOver(items, "damage") + SumOver(items, "armor")
                + SumOver(items, "health_bonus")
                + SumOver(items, "speed_bonus")
                + IntOfPercent(SumOver(items, "luck_bonus"))
                + IntOfPercent(SumOver(items, "crit_bonus"))
                + SumOver(items, "magic_bonus")
        class_bonus == level[p] * 2
    IN  base_power + equipment_power + class_bonus

\* CombatCog.calculate_battle_power: luck_modifier is the luck column plus
\* blessing_bonuses.get('luck', 0), the dict's "luck" entry
combat_power(p) ==
    LET luck_modifier == luck_column(p) + active_luck(p)
        total == (unscaled_power(p) * luck_modifier
                      * BlessingMult(p, "battle_mult")) \div 10000
    IN  Max(1, total)

outsidePower == <<category, now, online, profileVars, RACES, cpu, advVars,
                  epicVars, favor, teamRewards, raidVars, running, aborted,
                  timerVars, battleVars, itemVars, resolved, bagVars>>

\* AutoplayCog.calculate_battle_power(char); get_active_blessings deletes
\* the user's expired blessings on the way
autoplay_calculate_battle_power(p) ==
    /\ category \in {"power", "gear"}
    /\ Len(powerLog) < MaxPowerCalls
    /\ \E draw \in JitterDraws :
           powerLog' = Append(powerLog,
                              [fn |-> "autoplay.calculate_battle_power",
                               args |-> <<p>>,
                               result |-> autoplay_power(p, draw)])
    /\ blessings' = CleanExpired(p)
    /\ UNCHANGED outsidePower

\* CombatCog.calculate_battle_power(user_id)
combat_calculate_battle_power(p) ==
    /\ category \in {"power", "gear"}
    /\ Len(powerLog) < MaxPowerCalls
    /\ powerLog' = Append(powerLog,
                          [fn |-> "combat.calculate_battle_power",
                           args |-> <<p>>,
                           result |-> combat_power(p)])
    /\ blessings' = CleanExpired(p)
    /\ UNCHANGED outsidePower

\* AutoplayCog.simulate_battle(char1, char2): the winner is the result
simulate_battle(char1, char2) ==
    /\ category = "power"
    /\ Len(powerLog) < MaxPowerCalls
    /\ \E draw1 \in JitterDraws, draw2 \in JitterDraws :
           LET char1_power == simulate_power(char1, draw1)
               char2_power == simulate_power(char2, draw2)
           IN  powerLog' = Append(powerLog,
                   [fn |-> "autoplay.simulate_battle",
                    args |-> <<char1, char2>>,
                    result |-> IF char1_power >= char2_power
                               THEN char1 ELSE char2])
    /\ UNCHANGED <<outsidePower, blessings>>

\* the bless command asked for valor
bless_valor(p) ==
    /\ category = "power"
    /\ favor[p] >= VALOR.cost
    /\ \A b \in ActiveBlessings(p) : b.effect # VALOR.effect
    /\ favor' = [favor EXCEPT ![p] = @ - VALOR.cost]
    /\ blessings' = blessings \cup
           {[user_id |-> p, effect |-> VALOR.effect, value |-> VALOR.value,
             expires_at |-> now + BlessDuration]}
    /\ UNCHANGED <<category, now, online, profileVars, RACES, cpu, advVars,
                   epicVars, teamRewards, raidVars, sideVars>>

\* the items the first user may be wearing
WornItems ==
    {NoItem, generated_stats("Axe", DefaultMaxStat),
     generated_stats("Helmet", DefaultMaxStat)}

InitPower ==
    /\ category = "power"
    /\ InitCore(Users)
    /\ online = [p \in Users |-> TRUE]
    /\ item \in WornItems
    /\ materials = [m \in {"scrap", "dust", "essence"} |-> 0]
    /\ shown = "none"
    /\ rfSession = NoSession
    /\ upSession = [s \in Sessions |-> NoSession]
NextPower ==
    \/ \E p \in Users : bless_valor(p)
    \/ \E p \in Users : autoplay_calculate_battle_power(p)
    \/ \E p \in Users : combat_calculate_battle_power(p)
    \/ \E char1 \in Users, char2 \in Users :
           char1 # char2 /\ simulate_battle(char1, char2)
SpecPower == InitPower /\ [][NextPower]_vars

\* ------------------------------------------------------------ gear

\* the equipped item the upgrades are followed on: an Axe of 50 points,
\* fresh or already at level 9
GearItems ==
    {[generated_stats("Axe", DefaultMaxStat) EXCEPT !.upgrade_level = l] :
        l \in {0, MaxUpgradeLevel - 1}}

\* the blacksmith's upgrade command and the power calculations, on the
\* item the first user wears
InitGear ==
    /\ category = "gear"
    /\ InitCore(Users)
    /\ online = [p \in Users |-> TRUE]
    /\ item \in GearItems
    /\ materials = [m \in {"scrap", "dust", "essence"} |-> MaxMaterials]
    /\ shown = "none"
    /\ rfSession = NoSession
    /\ upSession = [s \in Sessions |-> NoSession]
NextGear ==
    \/ \E s \in Sessions : UpgradeAsk(s)
    \/ \E s \in Sessions, confirmed \in BOOLEAN, success \in BOOLEAN :
           UpgradeConfirm(s, confirmed, success)
    \/ \E p \in Users : autoplay_calculate_battle_power(p)
    \/ \E p \in Users : combat_calculate_battle_power(p)
SpecGear == InitGear /\ [][NextGear]_vars

\* ------------------------------------------------------------ outcomes

\* the luck column of a profile, in hundredths
LuckValues == {50, 100, 150}
\* values of random.random(), in thousandths
UnitDraws == {0, 500, 599, 600, 700, 949, 950, 999}
\* the difficulty column of the adventure row
Difficulties == {1, 2, 7}
\* the powers the battles are resolved on
BattlePowers == {100, 120}
\* values of random.uniform(0.8, 1.2) and of random.uniform(0.85, 1.15),
\* in hundredths
DuelJitters == {80, 100, 120}
TeamJitters == {85, 100, 115}

\* AdventureCog.calculate_adventure_power
calculate_adventure_power(p) ==
    SumOver(get_equipped_items(p), "damage")
        + SumOver(get_equipped_items(p), "armor")

\* a chance that starts from 65
success_chance_from_65(lvl, difficulty, equipment_bonus, luck) ==
    Min(950, 650 + Max(0, lvl - difficulty) * 50
                 + Min(20, equipment_bonus \div 10) * 10 + (luck - 100))

\* complete_adventure: min(95, base_chance + level_bonus + equipment_chance
\* + luck_bonus), in thousandths
success_chance(lvl, difficulty, equipment_bonus, luck) ==
    LET base_chance == 600
        level_bonus == Max(0, lvl - difficulty) * 50
        equipment_chance == Min(20, equipment_bonus \div 10) * 10
        luck_bonus == luck - 100
    IN  Min(950, base_chance + level_bonus + equipment_chance + luck_bonus)

outsideOutcome == <<category, now, online, profileVars, RACES, cpu, advVars,
                    epicVars, blessVars, raidVars, running, aborted,
                    timerVars, battleVars, itemVars, powerLog, bagVars>>

\* ReligionCog.bless: the divination blessing
DIVINATION == [cost |-> 35, effect |-> "adventure_success", value |-> 1]

\* active["adventure_success"] of get_active_blessings
Divined(p) == \E b \in ActiveBlessings(p) : b.effect = DIVINATION.effect

\* the bless command for divination, from the favor check to the INSERT
bless_divination(p) ==
    /\ category = "divination"
    /\ favor[p] >= DIVINATION.cost
    /\ ~Divined(p)
    /\ favor' = [favor EXCEPT ![p] = @ - DIVINATION.cost]
    /\ blessings' = blessings \cup
           {[user_id |-> p, effect |-> DIVINATION.effect,
             value |-> DIVINATION.value, expires_at |-> now + BlessDuration]}
    /\ UNCHANGED <<category, now, online, profileVars, RACES, cpu, advVars,
                   epicVars, teamRewards, raidVars, sideVars>>

\* the success roll of the complete command:
\* success = random.random() < success_chance / 100
complete_adventure_roll(p, difficulty, luck, draw) ==
    /\ category \in {"outcomes", "divination"}
    /\ LET chance == success_chance(level[p], difficulty,
                                    calculate_adventure_power(p), luck)
           success == draw < chance
       IN  /\ resolved' = [fn |-> "complete_adventure", user_id |-> p,
                           difficulty |-> difficulty, luck |-> luck,
                           drawn |-> TRUE, draw |-> draw, chance |-> chance,
                           success |-> success,
                           adventure_success |-> Divined(p)]
           \* the success branch calls get_active_blessings and deletes the
           \* adventure_success rows it finds
           /\ blessings' = IF success
                           THEN {b \in CleanExpired(p) :
                                    ~(Divined(p) /\ b.user_id = p
                                        /\ b.effect = "adventure_success")}
                           ELSE blessings
    /\ UNCHANGED <<category, now, online, profileVars, RACES, cpu, advVars,
                   epicVars, favor, teamRewards, raidVars, running, aborted,
                   timerVars, battleVars, itemVars, powerLog, bagVars>>

\* level_up_check finalizes a due adventure: no chance is computed and
\* nothing is drawn for the result, the row becomes 'completed'
level_up_check_roll(p, difficulty, luck) ==
    /\ category = "outcomes"
    /\ resolved' = [fn |-> "level_up_check", user_id |-> p,
                    difficulty |-> difficulty, luck |-> luck,
                    drawn |-> FALSE, draw |-> 0, chance |-> 1000,
                    success |-> TRUE]
    /\ UNCHANGED outsideOutcome

\* the two adjusted values of a battle and the side that won (1 or 2)
Battle(fn, value1, value2, winner) ==
    [fn |-> fn, adjusted |-> <<value1, value2>>, winner |-> winner]

\* CombatCog.simulate_battle: winner = user1 if roll1 > roll2 else user2
combat_simulate_battle(power1, power2, u1, u2, crit1, crit2) ==
    /\ category = "outcomes"
    /\ LET roll1 == power1 * u1 * (IF crit1 THEN 150 ELSE 100)
           roll2 == power2 * u2 * (IF crit2 THEN 150 ELSE 100)
       IN  resolved' = Battle("combat.simulate_battle", roll1, roll2,
                              IF roll1 > roll2 THEN 1 ELSE 2)
    /\ UNCHANGED outsideOutcome

\* AutoPlayCog.simulate_battle on the two powers it has computed:
\* char1 wins if char1_power >= char2_power
autoplay_simulate_battle(char1_power, char2_power) ==
    /\ category = "outcomes"
    /\ resolved' = Battle("autoplay.simulate_battle", char1_power,
                          char2_power,
                          IF char1_power >= char2_power THEN 1 ELSE 2)
    /\ UNCHANGED outsideOutcome

\* run_3v3_battle: winning_team = team_a if team_a_roll > team_b_roll
\* else team_b
team_battle(team_a_power, team_b_power, ua, ub) ==
    /\ category = "outcomes"
    /\ LET team_a_roll == team_a_power * ua * 80
           team_b_roll == team_b_power * ub * 80
       IN  resolved' = Battle("run_3v3_battle", team_a_roll, team_b_roll,
                              IF team_a_roll > team_b_roll THEN 1 ELSE 2)
    /\ UNCHANGED outsideOutcome

InitOutcome ==
    /\ category = "outcomes"
    /\ InitCore(Users)
    /\ online = [p \in Users |-> TRUE]
    /\ item \in WornItems
    /\ materials = [m \in {"scrap", "dust", "essence"} |-> 0]
    /\ shown = "none"
    /\ rfSession = NoSession
    /\ upSession = [s \in Sessions |-> NoSession]
NextOutcome ==
    \/ \E p \in Users, difficulty \in Difficulties, luck \in LuckValues,
          draw \in UnitDraws :
           complete_adventure_roll(p, difficulty, luck, draw)
    \/ \E p \in Users, difficulty \in Difficulties, luck \in LuckValues :
           level_up_check_roll(p, difficulty, luck)
    \/ \E power1 \in BattlePowers, power2 \in BattlePowers,
          u1 \in DuelJitters, u2 \in DuelJitters,
          crit1 \in BOOLEAN, crit2 \in BOOLEAN :
           combat_simulate_battle(power1, power2, u1, u2, crit1, crit2)
    \/ \E char1_power \in BattlePowers, char2_power \in BattlePowers :
           autoplay_simulate_battle(char1_power, char2_power)
    \/ \E team_a_power \in BattlePowers, team_b_power \in BattlePowers,
          ua \in TeamJitters, ub \in TeamJitters :
           team_battle(team_a_power, team_b_power, ua, ub)
SpecOutcome == InitOutcome /\ [][NextOutcome]_vars

\* the complete command of participants who may buy the divination blessing
InitDivination ==
    /\ category = "divination"
    /\ InitStore(Users)
    /\ online = [p \in Users |-> TRUE]
NextDivination ==
    \/ Tick
    \/ \E p \in Users : bless_divination(p)
    \/ \E p \in Users, difficulty \in Difficulties, luck \in LuckValues,
          draw \in UnitDraws :
           complete_adventure_roll(p, difficulty, luck, draw)
SpecDivination == InitDivination /\ [][NextDivination]_vars

\* ------------------------------------------------- blessings (resolution)
\* get_active_blessings on a divine_blessings table that holds any rows
MaxRows == 2
MultEffects == {"xp_mult", "gold_mult", "battle_mult"}
MultValues == {125, 150, 175}
BlessingRows ==
    [user_id : Users, effect : MultEffects, value : MultValues,
     expires_at : {1, 2}]

\* the tables of at most MaxRows rows
RECURSIVE TablesOf(_)
TablesOf(n) ==
    IF n = 0 THEN {{}}
    ELSE TablesOf(n - 1) \cup
         {t \cup {r} : t \in TablesOf(n - 1), r \in BlessingRows}
Tables == TablesOf(MaxRows)

\* get_active_blessings(user_id): the SELECT of the unexpired rows, the
\* DELETE of the expired ones, and the dict built from the rows
get_active_blessings_call(p) ==
    /\ category = "blessings"
    /\ resolved' = [fn |-> "get_active_blessings", user_id |-> p,
                    rows |-> ActiveBlessings(p),
                    active |-> get_active_blessings(p)]
    /\ blessings' = CleanExpired(p)
    /\ UNCHANGED <<category, now, online, profileVars, RACES, cpu, advVars,
                   epicVars, favor, teamRewards, raidVars, running, aborted,
                   timerVars, battleVars, itemVars, powerLog, bagVars>>

InitBlessing ==
    /\ category = "blessings"
    /\ InitProfiles(Users)
    /\ blessings \in Tables
    /\ online = [p \in Users |-> TRUE]
    /\ item = NoItem
    /\ materials = [m \in {"scrap", "dust", "essence"} |-> 0]
    /\ shown = "none"
    /\ rfSession = NoSession
    /\ upSession = [s \in Sessions |-> NoSession]
NextBlessing ==
    \/ Tick
    \/ \E p \in Users : Bless(p)
    \/ \E p \in Users : get_active_blessings_call(p)
SpecBlessing == InitBlessing /\ [][NextBlessing]_vars

\* ---------------------------------------------------- rewards of a unit
\* what one completion grants, by category, on success and on failure
RaceInputs ==
    {[xp_gain |-> 70, gold_find |-> 90], [xp_gain |-> 110, gold_find |-> 100],
     [xp_gain |-> 130, gold_find |-> 80]}
BlessingInputs ==
    {[xp_mult |-> 100, gold_mult |-> 100], [xp_mult |-> 175, gold_mult |-> 150]}
RaidMults == {100, 120}
Variances == {80, 100, 120}

\* the draws of complete_adventure: randint(min_reward, max_reward),
\* randint(5, 15), randint(1, 5)
AdventureDraws(info) ==
    [gold : {info.min_reward, info.max_reward}, xp : {5, 15},
     consolation_xp : {1, 5}]
\* random.uniform(0.8, 1.2) twice, in hundredths
EpicDraws == [xp_variance : Variances, gold_variance : Variances]
\* randint(50, 150) and randint(200, 800) on victory, randint(25, 75) and
\* randint(100, 300) on defeat
RaidDraws ==
    [xp : {50, 150}, gold : {200, 800}, consolation_xp : {25, 75},
     consolation_gold : {100, 300}]

\* race_multipliers[k] *= blessing_bonuses[k], then int(reward *
\* race_multipliers[k]), multipliers in hundredths. In double arithmetic
\* 0.7 * 1.5 and 0.7 * 1.75 fall just below 1.05 and 1.225, so a product
\* that would be a whole number is truncated to the number below it
Multiplied(reward, gain, mult) ==
    LET n == reward * gain * mult
    IN  IF gain = 70 /\ mult > 100 /\ n % 10000 = 0
        THEN n \div 10000 - 1
        ELSE n \div 10000

\* complete_adventure: gold and xp of the success branch, the consolation
\* xp of the failure branch
adventure_rewards(info, lvl, race_multipliers, blessing_bonuses, success, draws) ==
    IF success
    THEN LET difficulty_bonus == Max(0, info.difficulty - lvl) * 10
             gold_reward == (draws.gold * (100 + difficulty_bonus)) \div 100
             xp_reward == info.difficulty * 10 + draws.xp
         IN  [xp |-> Multiplied(xp_reward, race_multipliers.xp_gain,
                                blessing_bonuses.xp_mult),
              gold |-> Multiplied(gold_reward, race_multipliers.gold_find,
                                  blessing_bonuses.gold_mult)]
    ELSE [xp |-> draws.consolation_xp, gold |-> 0]

\* base * variance; the base rewards are multiples of 100, so the
\* division is exact
Varied(base, variance) == (base * variance) \div 100

\* an epic completion that grants nothing on failure
epic_rewards_none(adventure, race_multipliers, blessing_bonuses, success, draws) ==
    IF success
    THEN [xp |-> Multiplied(Varied(adventure.base_xp, draws.xp_variance),
                            race_multipliers.xp_gain,
                            blessing_bonuses.xp_mult),
          gold |-> Multiplied(Varied(adventure.base_gold, draws.gold_variance),
                              race_multipliers.gold_find,
                              blessing_bonuses.gold_mult)]
    ELSE [xp |-> 0, gold |-> 0]

\* check_epic_completions: final_xp and final_gold of the two branches
epic_rewards(adventure, race_multipliers, blessing_bonuses, success, draws) ==
    IF success
    THEN [xp |-> Multiplied(Varied(adventure.base_xp, draws.xp_variance),
                            race_multipliers.xp_gain,
                            blessing_bonuses.xp_mult),
          gold |-> Multiplied(Varied(adventure.base_gold, draws.gold_variance),
                              race_multipliers.gold_find,
                              blessing_bonuses.gold_mult)]
    ELSE [xp |-> (adventure.base_xp * 20 * race_multipliers.xp_gain)
                     \div 10000,
          gold |-> (adventure.base_gold * 10 * race_multipliers.gold_find)
                       \div 10000]

\* handle_raid_victory / handle_raid_defeat: one raider's xp and gold
raid_rewards(raid_mult, success, draws) ==
    IF success
    THEN LET level_bonus == boss.level * 10
             xp_reward == boss.xp_reward + draws.xp + level_bonus
             gold_reward == boss.gold_reward + draws.gold + level_bonus
         IN  [xp |-> (xp_reward * raid_mult) \div 100,
              gold |-> (gold_reward * raid_mult) \div 100]
    ELSE [xp |-> boss.xp_reward \div 3 + draws.consolation_xp,
          gold |-> boss.gold_reward \div 4 + draws.consolation_gold]

\* one adventure is completed by the complete command
adventure_reward_step(p, name, race_multipliers, blessing_bonuses, success, draws) ==
    /\ category = "rewards"
    /\ resolved' = [fn |-> "adventure_rewards", unit |-> ADVENTURES[name],
                    lvl |-> level[p], race_multipliers |-> race_multipliers,
                    blessing_bonuses |-> blessing_bonuses,
                    success |-> success,
                    reward |-> adventure_rewards(ADVENTURES[name], level[p],
                                   race_multipliers, blessing_bonuses,
                                   success, draws)]
    /\ UNCHANGED outsideOutcome

\* one epic or legendary adventure is completed by check_epic_completions
epic_reward_step(adventure, race_multipliers, blessing_bonuses, success, draws) ==
    /\ category = "rewards"
    /\ resolved' = [fn |-> "epic_rewards", unit |-> adventure,
                    race_multipliers |-> race_multipliers,
                    blessing_bonuses |-> blessing_bonuses,
                    success |-> success,
                    reward |-> epic_rewards(adventure, race_multipliers,
                                   blessing_bonuses, success, draws)]
    /\ UNCHANGED outsideOutcome

\* one raider is rewarded by the raid's handler
raid_reward_step(raid_mult, success, draws) ==
    /\ category = "rewards"
    /\ resolved' = [fn |-> "raid_rewards", raid_mult |-> raid_mult,
                    success |-> success,
                    reward |-> raid_rewards(raid_mult, success, draws)]
    /\ UNCHANGED outsideOutcome

EpicUnits ==
    {EPIC_ADVENTURES[n] : n \in DOMAIN EPIC_ADVENTURES}
        \cup {LEGENDARY_ADVENTURES[n] : n \in DOMAIN LEGENDARY_ADVENTURES}

InitRewards ==
    /\ category = "rewards"
    /\ InitStore(Users)
    /\ online = [p \in Users |-> TRUE]
NextRewards ==
    \/ \E p \in Users, name \in DOMAIN ADVENTURES, race \in RaceInputs,
          bless \in BlessingInputs, success \in BOOLEAN :
         \E draws \in AdventureDraws(ADVENTURES[name]) :
           adventure_reward_step(p, name, race, bless, success, draws)
    \/ \E adventure \in EpicUnits, race \in RaceInputs,
          bless \in BlessingInputs, success \in BOOLEAN, draws \in EpicDraws :
           epic_reward_step(adventure, race, bless, success, draws)
    \/ \E raid_mult \in RaidMults, success \in BOOLEAN, draws \in RaidDraws :
           raid_reward_step(raid_mult, success, draws)
SpecRewards == InitRewards /\ [][NextRewards]_vars

\* ---------------------------------------------------------- 1v1 battles
\* run_1v1_battle on two veterans, one of whom can buy blessings
MaxDuels == 2
Duelists == Veterans

\* run_1v1_battle from the reward draws to the two update_character calls
\* (no await in between), with what it credited
run_1v1_battle(winner, loser) ==
    /\ category = "duels"
    /\ cpu = "none"
    /\ battlesRun < MaxDuels
    /\ <<winner, loser>> \in FighterPairs(Duelists)
    /\ DuelRewards(winner, loser)
    /\ resolved' = [fn |-> "run_1v1_battle", winner |-> winner,
                    loser |-> loser,
                    xp_mult |-> [p \in {winner, loser} |->
                                    BlessingMult(p, "xp_mult")],
                    gold_mult |-> BlessingMult(winner, "gold_mult"),
                    winner_xp |-> xp'[winner] - xp[winner],
                    loser_xp |-> xp'[loser] - xp[loser],
                    winner_gold |-> money'[winner] - money[winner]]
    /\ battlesRun' = battlesRun + 1
    /\ UNCHANGED <<category, now, online, cpu, favor, teamRewards, advVars,
                   epicVars, raidVars, running, aborted, timerVars, btPc,
                   btWinners, btLosers, btTodo, btPaid, itemVars, powerLog, bagVars>>

InitDuel ==
    /\ category = "duels"
    /\ InitStore(Duelists)
    /\ online = [p \in Duelists |-> TRUE]
NextDuel ==
    \/ Tick
    \/ \E p \in Duelists : Bless(p)
    \/ \E winner \in Duelists, loser \in Duelists :
           run_1v1_battle(winner, loser)
SpecDuel == InitDuel /\ [][NextDuel]_vars

\* ------------------------------------------------------------ equipment
\* rows of table inventory followed per behaviour
MaxItems == 3
\* a part of ItemType: a one-handed and a two-handed weapon, the shield and
\* a piece of armour
BagTypes == {"Sword", "Greatsword", "Shield", "Helmet"}
\* adventure loot at difficulty 1: random.randint(max(4, 2), 9), the upper
\* end
LootTotals == {9}
\* value = total_stats * random.randint(80, 120), the draw at its lower end
ValueDraws == {80}
\* min_stat and max_stat the create command passes for the starter items
StarterStat == 3
\* the gold a new character is told it starts with
StartingGold == 100

\* ItemGenerator.get_hand_for_type
get_hand_for_type(item_type) ==
    IF item_type \in {"Greatsword", "Bow", "Crossbow", "Staff", "Halberd",
                      "Scythe"}
    THEN "both"
    ELSE IF item_type = "Shield" THEN "left" ELSE "any"

\* the ItemType values generate_item's slot lookup treats as weapons
weapon_types == {"Sword", "Axe", "Hammer", "Mace", "Dagger", "Knife", "Spear",
                 "Wand", "Staff", "Bow", "Crossbow", "Greatsword", "Halberd",
                 "Katana", "Scythe"}
armor_slots == {"head", "chest", "legs", "hands", "feet"}

\* ItemGenerator.get_slot_for_type
get_slot_for_type(item_type) ==
    CASE item_type \in weapon_types -> "weapon"
      [] item_type = "Shield" -> "shield"
      [] item_type = "Helmet" -> "head"
      [] item_type = "Chestplate" -> "chest"
      [] item_type = "Leggings" -> "legs"
      [] item_type = "Gauntlets" -> "hands"
      [] item_type = "Boots" -> "feet"
      [] OTHER -> "weapon"

\* the totals random.randint(max(4, min_stat), max_stat) can return; the
\* empty set is the ValueError randint raises for an empty range
budget_totals(min_stat, max_stat) ==
    (IF min_stat > 4 THEN min_stat ELSE 4)..max_stat

\* the row db.create_item inserts for an item generate_item returned
item_row(owner, name, item_type, total_stats, draw) ==
    generated_stats(item_type, total_stats)
        @@ [owner |-> owner, name |-> name, value |-> total_stats * draw,
            hand |-> get_hand_for_type(item_type),
            slot_type |-> get_slot_for_type(item_type), equipped |-> FALSE]

\* the ids of the rows a user owns; a deleted row has owner 0
owned(p) == {i \in DOMAIN inventory : inventory[i].owner = p}
\* the ids of the rows db.get_equipped_items returns
equipped_ids(p) == {i \in owned(p) : inventory[i].equipped}

\* the names typed at the create command: too short, well-formed, and with
\* a character that is neither a letter nor a digit
Names == {[len |-> 2, isalnum |-> TRUE], [len |-> 5, isalnum |-> TRUE],
          [len |-> 5, isalnum |-> FALSE]}
NoName == [len |-> 0, isalnum |-> FALSE]
Prompted(p) == [cmd |-> "create", user |-> p]

outsideBag == <<category, now, online, RACES, cpu, advVars, epicVars,
                blessVars, raidVars, running, aborted, timerVars, battleVars,
                itemVars, powerLog, resolved>>

\* the create command from the name validation on: the profile row is
\* inserted, then the two starter items are generated, inserted and equipped;
\* an exception of generate_item ends the command where it is raised
create_named(p, name) ==
    IF ~(3 <= name.len /\ name.len <= 20 /\ name.isalnum) \/ p \in characters
    THEN UNCHANGED <<characters, inventory, profileVars, streak>>
    ELSE /\ characters' = characters \cup {p}
         /\ xp' = [xp EXCEPT ![p] = 0]
         /\ level' = [level EXCEPT ![p] = 1]
         /\ money' = [money EXCEPT ![p] = StartingGold]
         /\ UNCHANGED <<completed, streak>>
         /\ LET totals == budget_totals(StarterStat, StarterStat)
            IN  IF totals = {}
                THEN UNCHANGED inventory
                ELSE \E sword_total \in totals, shield_total \in totals :
                     \E d1 \in ValueDraws, d2 \in ValueDraws :
                         LET sword == item_row(p, "Starter Sword", "Sword",
                                               sword_total, d1)
                             shield == item_row(p, "Starter Shield", "Shield",
                                                shield_total, d2)
                         IN  inventory' = inventory
                                 \o <<[sword EXCEPT !.equipped = TRUE],
                                      [shield EXCEPT !.equipped = TRUE]>>

\* CharacterCog.create up to the name prompt, or to its end when the name
\* came with the command
create(p, name) ==
    /\ category = "equipment"
    /\ p \notin characters
    /\ Prompted(p) \notin cmds
    /\ IF name = NoName
       THEN /\ cmds' = cmds \cup {Prompted(p)}
            /\ UNCHANGED <<characters, inventory, profileVars, streak>>
       ELSE /\ create_named(p, name)
            /\ UNCHANGED cmds
    /\ UNCHANGED outsideBag

\* the name arrives within the 30 seconds
create_answer(p, name) ==
    /\ category = "equipment"
    /\ Prompted(p) \in cmds
    /\ cmds' = cmds \ {Prompted(p)}
    /\ create_named(p, name)
    /\ UNCHANGED outsideBag

\* asyncio.TimeoutError of the name prompt
create_timeout(p) ==
    /\ category = "equipment"
    /\ Prompted(p) \in cmds
    /\ cmds' = cmds \ {Prompted(p)}
    /\ UNCHANGED <<characters, inventory, profileVars, streak, outsideBag>>

\* the item reward of a completed adventure: generate_item with a random
\* type, then db.create_item
adventure_loot(p, item_type) ==
    /\ category \in {"equipment", "salvage"}
    /\ p \in characters
    /\ Len(inventory) < MaxItems
    /\ \E total_stats \in LootTotals, draw \in ValueDraws :
           inventory' = Append(inventory, item_row(p, item_type, item_type,
                                                    total_stats, draw))
    /\ UNCHANGED <<characters, cmds, profileVars, streak, outsideBag>>

\* the equipped items the equip command unequips for the item it equips
conflicts(p, item_id) ==
    LET it == inventory[item_id]
        equipped_items == equipped_ids(p)
        hands_full ==
            Cardinality({x \in equipped_items :
                             /\ inventory[x].slot_type = "weapon"
                             /\ inventory[x].hand \in {"left", "right", "any"}})
                >= 2
    IN  {e \in equipped_items :
            LET eq_item == inventory[e]
            IN  IF it.slot_type \in armor_slots
                       /\ eq_item.slot_type = it.slot_type
                THEN TRUE
                ELSE IF it.type = "Shield" /\ eq_item.type = "Shield"
                THEN TRUE
                ELSE IF it.slot_type = "weapon" /\ eq_item.slot_type = "weapon"
                THEN IF it.hand = "both" \/ eq_item.hand = "both"
                     THEN TRUE
                     ELSE IF it.hand \in {"left", "right"}
                                 /\ eq_item.hand = it.hand
                     THEN TRUE
                     ELSE IF it.type \in weapon_types
                                 /\ eq_item.type \in weapon_types
                     THEN TRUE
                     ELSE IF it.hand = "any"
                                 /\ eq_item.hand \in {"left", "right", "any"}
                     THEN hands_full
                     ELSE FALSE
                ELSE FALSE}

\* InventoryCog.equip
equip(p, item_id) ==
    /\ category = "equipment"
    /\ p \in characters
    /\ item_id \in owned(p)
    /\ ~inventory[item_id].equipped
    /\ inventory' = [i \in DOMAIN inventory |->
                        IF i = item_id
                        THEN [inventory[i] EXCEPT !.equipped = TRUE]
                        ELSE IF i \in conflicts(p, item_id)
                        THEN [inventory[i] EXCEPT !.equipped = FALSE]
                        ELSE inventory[i]]
    /\ UNCHANGED <<characters, cmds, profileVars, streak, outsideBag>>

\* InventoryCog.remove
remove(p, item_id) ==
    /\ category = "equipment"
    /\ p \in characters
    /\ item_id \in owned(p)
    /\ inventory[item_id].equipped
    /\ inventory' = [inventory EXCEPT ![item_id].equipped = FALSE]
    /\ UNCHANGED <<characters, cmds, profileVars, streak, outsideBag>>

\* a server on which one member has a character already
Newcomers == {2}
InitEquipment ==
    /\ category = "equipment"
    /\ InitColumns(Users)
    /\ online = [p \in Users |-> TRUE]
    /\ blessings = {}
    /\ item = NoItem
    /\ materials = [m \in {"scrap", "dust", "essence"} |-> 0]
    /\ shown = "none"
    /\ rfSession = NoSession
    /\ upSession = [s \in Sessions |-> NoSession]
    /\ characters = Users \ Newcomers
    /\ inventory = <<>>
    /\ cmds = {}
    /\ streak = [p \in Users |-> 0]
    /\ last_date = [p \in Users |-> NoDate]
NextEquipment ==
    \/ \E p \in Users, name \in Names \cup {NoName} : create(p, name)
    \/ \E p \in Users, name \in Names : create_answer(p, name)
    \/ \E p \in Users : create_timeout(p)
    \/ \E p \in Users, item_type \in BagTypes : adventure_loot(p, item_type)
    \/ \E p \in Users, item_id \in 1..MaxItems : equip(p, item_id)
    \/ \E p \in Users, item_id \in 1..MaxItems : remove(p, item_id)
SpecEquipment == InitEquipment /\ [][NextEquipment]_vars

\* ------------------------------------------------------------ salvage
\* the user whose sales and dismantlings are followed; `materials` holds
\* this user's material columns
Salvagers == {1}
\* random.randint(1, 3) of _get_dismantle_yield, both ends
YieldDraws == {1, 3}

\* BlacksmithCog._get_dismantle_yield for a drawn amount
get_dismantle_yield(r, draw) ==
    LET material_type == get_material_tier(r)
    IN  IF material_type = "essence" THEN <<"essence", 1>>
        ELSE <<material_type, draw>>

\* db.delete_item: the row is gone, which a later get_item_by_id reports as
\* no item; deleting a row that is gone already changes nothing
delete_item(item_id) ==
    [inventory EXCEPT ![item_id].owner = 0]

Waiting(s) == {c \in cmds : c.s = s}

outsideSalvage == <<category, now, online, xp, level, completed, RACES, cpu,
                    advVars, epicVars, blessVars, raidVars, running, aborted,
                    timerVars, battleVars, item, shown, rfSession, upSession,
                    powerLog, resolved, characters, streak>>

\* InventoryCog.sell up to `await ctx.confirm`
sell_ask(s, p, item_id) ==
    /\ category = "salvage"
    /\ Waiting(s) = {}
    /\ item_id \in owned(p)
    /\ ~inventory[item_id].equipped
    /\ LET it == inventory[item_id]
           by_value == it.value \div 4
           by_stats == (it.damage + it.armor) * 10
           sell_price == IF by_value > by_stats THEN by_value ELSE by_stats
       IN  cmds' = cmds \cup {[cmd |-> "sell", s |-> s, user |-> p,
                               item_id |-> item_id,
                               sell_price |-> sell_price]}
    /\ UNCHANGED <<inventory, money, materials, outsideSalvage>>

\* InventoryCog.sell from the answer to the confirmation on
sell_confirm(s, confirmed) ==
    /\ category = "salvage"
    /\ \E c \in Waiting(s) :
           /\ c.cmd = "sell"
           /\ cmds' = cmds \ {c}
           /\ IF confirmed
              THEN /\ inventory' = delete_item(c.item_id)
                   /\ money' = [money EXCEPT ![c.user] = @ + c.sell_price]
              ELSE UNCHANGED <<inventory, money>>
    /\ UNCHANGED <<materials, outsideSalvage>>

\* BlacksmithCog._dismantle_single up to `await ctx.confirm`
dismantle_ask(s, p, item_id) ==
    /\ category = "salvage"
    /\ Waiting(s) = {}
    /\ item_id \in owned(p)
    /\ ~inventory[item_id].equipped
    /\ \E draw \in YieldDraws :
           LET yield == get_dismantle_yield(get_item_rarity(inventory[item_id]),
                                            draw)
           IN  cmds' = cmds \cup {[cmd |-> "dismantle", s |-> s, user |-> p,
                                   item_id |-> item_id,
                                   material_type |-> yield[1],
                                   amount |-> yield[2]]}
    /\ UNCHANGED <<inventory, money, materials, outsideSalvage>>

\* BlacksmithCog._dismantle_single from the answer to the confirmation on
dismantle_confirm(s, confirmed) ==
    /\ category = "salvage"
    /\ \E c \in Waiting(s) :
           /\ c.cmd = "dismantle"
           /\ cmds' = cmds \ {c}
           /\ IF confirmed
              THEN /\ inventory' = delete_item(c.item_id)
                   /\ materials' = [materials EXCEPT ![c.material_type] =
                                        @ + c.amount]
              ELSE UNCHANGED <<inventory, materials>>
    /\ UNCHANGED <<money, outsideSalvage>>

InitSalvage ==
    /\ category = "salvage"
    /\ InitStore(Users)
    /\ online = [p \in Users |-> TRUE]
NextSalvage ==
    \/ \E p \in Salvagers, item_type \in BagTypes : adventure_loot(p, item_type)
    \/ \E s \in Sessions, p \in Salvagers, item_id \in 1..MaxItems :
           sell_ask(s, p, item_id)
    \/ \E s \in Sessions, confirmed \in BOOLEAN : sell_confirm(s, confirmed)
    \/ \E s \in Sessions, p \in Salvagers, item_id \in 1..MaxItems :
           dismantle_ask(s, p, item_id)
    \/ \E s \in Sessions, confirmed \in BOOLEAN :
           dismantle_confirm(s, confirmed)
SpecSalvage == InitSalvage /\ [][NextSalvage]_vars

\* ------------------------------------------------------------ wagers
\* the bets offered with a challenge: every battle followed is wagered
Bets == {100}
\* random.uniform(0.8, 1.2) of simulate_battle in hundredths, both ends
RollDraws == {80, 120}

Challenge(a) == {c \in cmds : c.cmd = "battle" /\ c.user = a}

outsideWager == <<category, now, online, xp, level, completed, RACES, cpu,
                  advVars, epicVars, favor, teamRewards, raidVars, running,
                  aborted, timerVars, battleVars, itemVars, powerLog,
                  characters, inventory, streak>>

\* CombatCog.battle up to the wait for the opponent's reaction: both rows are
\* read and the bet is checked against them
battle_challenge(a, o, bet) ==
    /\ category = "wager"
    /\ a # o
    /\ a \in characters /\ o \in characters
    /\ Challenge(a) = {}
    /\ bet > 0 => (bet <= money[a] /\ bet <= money[o])
    /\ cmds' = cmds \cup {[cmd |-> "battle", user |-> a, opponent |-> o,
                           bet |-> bet, attacker_money |-> money[a],
                           opponent_money |-> money[o]]}
    /\ UNCHANGED <<money, blessings, resolved, outsideWager>>

\* the opponent declines, or the 60 seconds pass
battle_declined(a) ==
    /\ category = "wager"
    /\ \E c \in Challenge(a) :
           /\ cmds' = cmds \ {c}
           /\ resolved' = [fn |-> "battle_declined", user_id |-> a]
    /\ UNCHANGED <<money, blessings, outsideWager>>

\* CombatCog.battle from the opponent's acceptance on: the two powers, the
\* simulated battle, and the bet written from the rows read before the wait
battle_accepted(a, u1, u2, crit1, crit2) ==
    /\ category = "wager"
    /\ \E c \in Challenge(a) :
           LET o == c.opponent
               roll1 == combat_power(a) * u1 * (IF crit1 THEN 150 ELSE 100)
               roll2 == combat_power(o) * u2 * (IF crit2 THEN 150 ELSE 100)
               winner == IF roll1 > roll2 THEN a ELSE o
           IN  /\ cmds' = cmds \ {c}
               /\ blessings' = CleanExpired(a) \cap CleanExpired(o)
               /\ money' = IF c.bet > 0
                           THEN IF winner = a
                                THEN [money EXCEPT
                                         ![a] = c.attacker_money + c.bet,
                                         ![o] = c.opponent_money - c.bet]
                                ELSE [money EXCEPT
                                         ![a] = c.attacker_money - c.bet,
                                         ![o] = c.opponent_money + c.bet]
                           ELSE money
               /\ resolved' = [fn |-> "battle", winner |-> winner,
                               loser |-> IF winner = a THEN o ELSE a,
                               bet |-> c.bet]
    /\ UNCHANGED outsideWager

\* challenges between the members, who claim their daily rewards meanwhile
InitWager ==
    /\ category = "wager"
    /\ InitStore(Users)
    /\ online = [p \in Users |-> TRUE]
NextWager ==
    \/ Tick
    \/ \E p \in Users : daily(p, 100)
    \/ \E a \in Users, o \in Users, bet \in Bets : battle_challenge(a, o, bet)
    \/ \E a \in Users : battle_declined(a)
    \/ \E a \in Users, u1 \in RollDraws, u2 \in RollDraws :
           \E crit1 \in BOOLEAN, crit2 \in BOOLEAN :
               battle_accepted(a, u1, u2, crit1, crit2)
SpecWager == InitWager /\ [][NextWager]_vars

\* ------------------------------------------------------------ level fix
\* the xp the members start with
StartXps == {0, 350}

\* the loop of level_fix_loop over the rows it read, from the row it has
\* reached to its next await (the announcement of a raised level) or to its
\* end, with a level corrected only downwards
RECURSIVE fix_levels_down(_, _, _)
fix_levels_down(all_chars, todo, levels) ==
    IF todo = {}
    THEN [level |-> levels, todo |-> {}, sending |-> FALSE]
    ELSE LET user_id == CHOOSE u \in todo : \A v \in todo : u <= v
             char == all_chars[user_id]
             correct_level == LevelForXp(char.xp)
         IN  IF char.level > correct_level
             THEN fix_levels_down(all_chars, todo \ {user_id},
                                  [levels EXCEPT ![user_id] = correct_level])
             ELSE fix_levels_down(all_chars, todo \ {user_id}, levels)

\* the loop of level_fix_loop over the rows it read, from the row it has
\* reached to its next await (the announcement of a raised level) or to its
\* end
RECURSIVE fix_levels(_, _, _)
fix_levels(all_chars, todo, levels) ==
    IF todo = {}
    THEN [level |-> levels, todo |-> {}, sending |-> FALSE]
    ELSE LET user_id == CHOOSE u \in todo : \A v \in todo : u <= v
             char == all_chars[user_id]
             correct_level == LevelForXp(char.xp)
         IN  IF char.level = correct_level
             THEN fix_levels(all_chars, todo \ {user_id}, levels)
             ELSE IF correct_level > char.level
             THEN [level |-> [levels EXCEPT ![user_id] = correct_level],
                   todo |-> todo \ {user_id}, sending |-> TRUE]
             ELSE fix_levels(all_chars, todo \ {user_id},
                             [levels EXCEPT ![user_id] = correct_level])

LevelFix == {c \in cmds : c.cmd = "level_fix"}

outsideLevels == <<category, now, online, xp, money, completed, RACES, cpu,
                   advVars, epicVars, blessVars, raidVars, running, aborted,
                   timerVars, battleVars, itemVars, powerLog, resolved,
                   characters, inventory, streak>>

\* a tick of level_fix_loop: the rows are read and walked through up to the
\* first announcement
level_fix_loop ==
    /\ category = "levels"
    /\ "level_fix_loop" \in running
    /\ LevelFix = {}
    /\ LET all_chars == [p \in characters |->
                            [xp |-> xp[p], level |-> level[p]]]
           fixed == fix_levels(all_chars, characters, level)
       IN  /\ level' = fixed.level
           /\ cmds' = IF fixed.sending
                      THEN cmds \cup {[cmd |-> "level_fix",
                                       all_chars |-> all_chars,
                                       todo |-> fixed.todo]}
                      ELSE cmds
    /\ UNCHANGED outsideLevels

\* the announcement is sent and the loop goes on over the rows it read
level_fix_sent ==
    /\ category = "levels"
    /\ \E c \in LevelFix :
           LET fixed == fix_levels(c.all_chars, c.todo, level)
           IN  /\ level' = fixed.level
               /\ cmds' = (cmds \ {c})
                              \cup (IF fixed.sending
                                    THEN {[c EXCEPT !.todo = fixed.todo]}
                                    ELSE {})
    /\ UNCHANGED outsideLevels

\* members whose levels match their xp, claiming daily rewards
InitLevels ==
    /\ category = "levels"
    /\ InitServer(Users)
    /\ InitBag(Users)
    /\ xp \in [Users -> StartXps]
    /\ level = [p \in Users |-> LevelForXp(xp[p])]
    /\ blessings = {}
    /\ item = NoItem
    /\ materials = [m \in {"scrap", "dust", "essence"} |-> 0]
    /\ shown = "none"
    /\ rfSession = NoSession
    /\ upSession = [s \in Sessions |-> NoSession]
NextLevels ==
    \/ Tick
    \/ \E p \in Users : daily(p, 100)
    \/ level_fix_loop
    \/ level_fix_sent
SpecLevels == InitLevels /\ [][NextLevels]_vars

\* tasks.loop re-arms level_fix_loop every five minutes, `!autoplay stop`
\* leaves it running, and the event loop resumes it after an announcement
LevelFixKeepsRunning == WF_vars(level_fix_loop) /\ WF_vars(level_fix_sent)
FairSpecLevels == SpecLevels /\ LevelFixKeepsRunning

\* ------------------------------------------------------------ raid power
\* a part of CharacterClass: the starting class, two classes of the raider
\* line, one of the mage line and one of the warrior line
RaidClasses == {"Novice", "Raider", "Warchief", "Mage", "Warrior"}
RaidRaces == {"Human", "Orc"}
\* the levels at which an evolution tier starts, and level 1
TierLevels == {1, 5, 10, 15, 20, 25, 30}
\* the equipment_power of the items a raider wears
EquipmentPowers == {0, 9, 50}
\* base_attack and base_defense of a Character
BaseAttack == 10
BaseDefense == 10

\* the evolution tier (0-6) of get_class_bonuses
evolution_tier(lvl) ==
    IF lvl >= 30 THEN 6
    ELSE IF lvl >= 25 THEN 5
    ELSE IF lvl >= 20 THEN 4
    ELSE IF lvl >= 15 THEN 3
    ELSE IF lvl >= 10 THEN 2
    ELSE IF lvl >= 5 THEN 1
    ELSE 0

\* ClassStats.get_class_bonuses, the three multipliers a raid could use, in
\* hundredths
get_class_bonuses(char_class, lvl) ==
    LET tier == evolution_tier(lvl)
    IN  CASE char_class = "Warrior" ->
                 [attack_mult |-> 100 + 5 * tier,
                  defense_mult |-> 100 + 10 * tier, raid_mult |-> 100]
          [] char_class = "Mage" ->
                 [attack_mult |-> 100 + 10 * tier, defense_mult |-> 100,
                  raid_mult |-> 100]
          [] char_class = "Raider" ->
                 [attack_mult |-> 100 + 12 * tier, defense_mult |-> 100,
                  raid_mult |-> 100 + 10 * tier]
          [] char_class = "Warchief" ->
                 [attack_mult |-> 100 + 12 * tier, defense_mult |-> 100,
                  raid_mult |-> 100 + 10 * tier + 30]
          [] OTHER ->
                 [attack_mult |-> 100, defense_mult |-> 100,
                  raid_mult |-> 100]

\* RaceStats.get_race_bonuses, the two additive bonuses a raid uses
get_race_bonuses(race) ==
    IF race = "Orc" THEN [attack_bonus |-> 3, defense_bonus |-> 0]
    ELSE [attack_bonus |-> 0, defense_bonus |-> 0]

\* Character.total_stats, the entries a raid reads: the class's raid_mult
\* goes into raid_power, the dict has no raid_mult entry
character_total_stats(char_class, race, lvl, raidstats_column) ==
    LET class_bonuses == get_class_bonuses(char_class, lvl)
        race_bonuses == get_race_bonuses(race)
    IN  [attack |-> ((BaseAttack + race_bonuses.attack_bonus)
                         * class_bonuses.attack_mult) \div 100,
         defense |-> ((BaseDefense + race_bonuses.defense_bonus)
                          * class_bonuses.defense_mult) \div 100,
         raid_power |-> (raidstats_column * class_bonuses.raid_mult) \div 100]

\* stats.get('raid_mult', 1.0), in hundredths
stats_raid_mult(stats) ==
    IF "raid_mult" \in DOMAIN stats THEN stats.raid_mult ELSE 100

\* run_raid_battle: raider_power of one raider, in hundredths
raider_power(char_class, race, lvl, equipment_power) ==
    /\ category = "raid_power"
    /\ LET stats == character_total_stats(char_class, race, lvl, 0)
           unscaled == stats.attack + stats.defense + equipment_power
       IN  resolved' = [fn |-> "raider_power", char_class |-> char_class,
                        race |-> race, level |-> lvl,
                        class_raid_mult |->
                            get_class_bonuses(char_class, lvl).raid_mult,
                        unscaled |-> unscaled,
                        power |-> unscaled * stats_raid_mult(stats)]
    /\ UNCHANGED outsideOutcome

InitRaidPower ==
    /\ category = "raid_power"
    /\ InitStore(Users)
    /\ online = [p \in Users |-> TRUE]
\* a class other than the starting one is taken at level 5 or later
NextRaidPower ==
    \E char_class \in RaidClasses, race \in RaidRaces, lvl \in TierLevels :
        \E equipment_power \in EquipmentPowers :
            /\ char_class = "Novice" \/ lvl >= 5
            /\ raider_power(char_class, race, lvl, equipment_power)
SpecRaidPower == InitRaidPower /\ [][NextRaidPower]_vars

\* ------------------------------------------------------------ properties


\* C1: the reward of a work unit is applied at most once, however many
\* completions (job ticks, the complete command) are invoked on it
RewardAppliedOnce ==
    /\ \A u \in Ids(adventures) : advRewards[u] <= 1
    /\ \A u \in Ids(epic_adventures) : epicRewards[u] <= 1

\* C2: in every reachable state each participant has at most one active unit
\* in each category, and no step adds a unit for a participant who has an
\* active unit of that category
AtMostOneActive ==
    \A p \in Profiles :
        /\ Cardinality(ActiveIds(adventures, p)) <= 1
        /\ Cardinality(ActiveIds(epic_adventures, p)) <= 1
UnitsOf(table, p) == {i \in Ids(table) : table[i].user_id = p}
NoDuplicateCreated ==
    \A p \in Profiles :
        /\ ActiveIds(adventures, p) # {}
              => UnitsOf(adventures', p) = UnitsOf(adventures, p)
        /\ ActiveIds(epic_adventures, p) # {}
              => UnitsOf(epic_adventures', p) = UnitsOf(epic_adventures, p)
ClaimExclusive == []AtMostOneActive /\ [][NoDuplicateCreated]_vars

\* a start tick has run its selection while an online participant had an
\* active unit from an earlier tick, and has left that participant out
ClaimExclusiveWitness ==
    \E i \in Invokers, p \in Users :
        /\ advPc[i] = "insert"
        /\ online[p]
        /\ p \notin advSel[i]
        /\ \E u \in ActiveIds(adventures, p) : adventures[u].finish_at <= now

\* C3: the eligibility check and the insert are one atomic step: while a
\* creation attempt is between its check and its inserts, no participant it
\* selected has got an active unit from another attempt
CheckThenInsertAtomic ==
    /\ \A i \in Invokers :
          advPc[i] = "insert"
              => \A p \in advSel[i] : ActiveIds(adventures, p) = {}
    /\ epPc = "insert"
          => \A p \in epSel : ActiveIds(epic_adventures, p) = {}

\* two creation attempts overlap: one is parked at its send while the other
\* is between its check and its insert
CheckThenInsertWitness ==
    \E i, j \in Invokers :
        /\ i # j
        /\ advPc[i] = "send"
        /\ advPc[j] = "insert"
        /\ advSel[j] # {}

\* C4: a step that writes a reward for a unit leaves that unit in a terminal
\* status: no reward is written for a unit whose status is still active
RewardOnlyAfterFinalize ==
    [][/\ \A u \in Ids(adventures) :
             advRewards'[u] > advRewards[u]
                 => adventures'[u].status \in Terminal
       /\ \A u \in Ids(epic_adventures) :
             epicRewards'[u] > epicRewards[u]
                 => epic_adventures'[u].status \in Terminal]_vars

\* C5: once the status of a unit is completed, failed or cancelled, no step
\* changes it
TerminalAbsorbing ==
    [][/\ \A u \in Ids(adventures) :
             adventures[u].status \in Terminal
                 => adventures'[u].status = adventures[u].status
       /\ \A u \in Ids(epic_adventures) :
             epic_adventures[u].status \in Terminal
                 => epic_adventures'[u].status = epic_adventures[u].status]_vars

\* C6: resolving the bonuses for a reward mutates no shared state: the race
\* bonus table holds its initial values after any number of rewards
RaceTableUntouched == RACES = RaceBonuses

\* C7: an exception inside a tick does not keep the job from its work on
\* later ticks: whenever the raid job is between ticks, no raid is marked
\* active, so its next tick can start one
RaidJobNotBlocked == raidPc = "idle" => active_raid = NoRaid

\* C8: no write after a suspension uses a value read before it: when the
\* raid writes its rewards, the char_data it read before the narrative
\* delays still equals the store
NoStaleSnapshotWritten ==
    raidPc = "outcome"
       => \A p \in DOMAIN raider_stats :
             /\ raider_stats[p].money = money[p]
             /\ raider_stats[p].xp = xp[p]

\* C9: every active unit whose finish time has passed is eventually in a
\* terminal status, given that the completion jobs keep ticking
StatusOf(table, u) == IF u \in Ids(table) THEN table[u].status ELSE "none"
IsDue(table, u) ==
    u \in Ids(table) /\ table[u].status = "active" /\ table[u].finish_at <= now
DueUnitsFinalized ==
    \A u \in 1..MaxAdventures :
        /\ IsDue(adventures, u) ~> (StatusOf(adventures, u) \in Terminal)
        /\ IsDue(epic_adventures, u)
              ~> (StatusOf(epic_adventures, u) \in Terminal)

\* C10: a unit whose adventure name is not in the static definition table
\* ends as failed, with no reward written
UnknownNameFailsUnrewarded ==
    /\ \A u \in Ids(adventures) :
          (adventures[u].status \in Terminal
             /\ adventures[u].adventure_name \notin DOMAIN ADVENTURES)
          => (adventures[u].status = "failed" /\ advRewards[u] = 0)
    /\ \A u \in Ids(epic_adventures) :
          (epic_adventures[u].status \in Terminal
             /\ epic_adventures[u].adventure_name
                    \notin (DOMAIN EPIC_ADVENTURES
                            \cup DOMAIN LEGENDARY_ADVENTURES))
          => (epic_adventures[u].status = "failed" /\ epicRewards[u] = 0)

\* C11: after every run of auto_adventure_loop and of auto_battle_loop,
\* the runs that return early included, the job's next interval has been
\* freshly drawn (change_interval was called by that run)
IntervalDrawnByEveryRun == \A j \in TimedJobs : interval_changed[j]
\* C12: a stop or unload never ends a tick in flight in the middle of its
\* reward application: at the step that cancels jobs, no unit a tick is
\* working on has its reward written and its status still active, and no
\* battle in flight has rewarded only part of its participants
InFlightPartial ==
    \/ lvCur \in Ids(adventures) /\ adventures[lvCur].status = "active"
    \/ ecCur \in Ids(epic_adventures)
          /\ epic_adventures[ecCur].status = "active"
    \/ btPc # "idle" /\ btPaid # {} /\ btPaid # btWinners \cup btLosers
CancelStep == running' # running /\ running' \subseteq running
StopNeverAbortsMidReward == [][CancelStep => ~InFlightPartial]_vars
\* a battle was cancelled at its last await, every participant rewarded
StopNeverAbortsMidRewardWitness ==
    /\ "auto_battle_loop" \in aborted
    /\ btPaid # {}
    /\ btPaid = btWinners \cup btLosers
    /\ Cardinality(btPaid) = 2 * TeamSize
\* C13: a reroll keeps the rarity: the rarity derived from the item's stats
\* after a reforge equals the rarity derived before it
RerollStep == item # NoItem /\ item' # NoItem /\ item' # item
RerollKeepsRarity == [][RerollStep => rarity(item') = rarity(item)]_vars
\* C14: for every item row, the rarity the inventory's item display shows,
\* the rarity _get_item_rarity gives the dismantle, upgrade and reforge
\* commands, and Item.rarity are the same tier
RarityClassifiersAgree ==
    /\ item # NoItem =>
          /\ DisplayedRarity(item) = Title(get_item_rarity(item))
          /\ get_item_rarity(item) = rarity(item)
    /\ rfSession # NoSession =>
          /\ rfSession.rarity = rarity(rfSession.item)
          /\ Title(rfSession.rarity) = DisplayedRarity(rfSession.item)
\* the display, the reforge prompt and Item.rarity all saw a divine item
RarityClassifiersAgreeWitness ==
    /\ item # NoItem
    /\ shown = "Divine"
    /\ rfSession # NoSession
    /\ rfSession.item = item
    /\ rfSession.rarity = "divine"
    /\ rarity(item) = "divine"
\* C15: for every non-negative stat total the classifier returns one of the
\* seven tiers, never a lower tier for a higher total, and the boundary
\* totals fall in the documented tiers: 9 common, 10 and 19 uncommon, 20 and
\* 29 rare, 30 and 39 magic, 40 and 44 legendary, 45 and 49 mythic, 50 divine
ClassifierTiers ==
    /\ \A t \in 0..MaxStatTotal : RarityOf(t) \in Tiers
    /\ \A t \in 0..(MaxStatTotal - 1) :
           Rank(RarityOf(t)) <= Rank(RarityOf(t + 1))
    /\ RarityOf(0) = "common" /\ RarityOf(9) = "common"
    /\ RarityOf(10) = "uncommon" /\ RarityOf(19) = "uncommon"
    /\ RarityOf(20) = "rare" /\ RarityOf(29) = "rare"
    /\ RarityOf(30) = "magic" /\ RarityOf(39) = "magic"
    /\ RarityOf(40) = "legendary" /\ RarityOf(44) = "legendary"
    /\ RarityOf(45) = "mythic" /\ RarityOf(49) = "mythic"
    /\ RarityOf(50) = "divine" /\ RarityOf(MaxStatTotal) = "divine"
    /\ item # NoItem =>
          /\ rarity(item) \in Tiers
          /\ \A t \in 0..stat_total(item) :
                 Rank(RarityOf(t)) <= Rank(rarity(item))
\* an item whose stats sum to the boundary total 45 is classified mythic
ClassifierTiersWitness ==
    /\ item # NoItem
    /\ stat_total(item) = 45
    /\ rarity(item) = "mythic"
\* C16: a reroll produces a stat vector that fresh generation of the same
\* type with the item's rarity forced can produce: the total is drawn from
\* the same range and distributed the same way
RerollAsGeneration ==
    [][(item # NoItem /\ rfSession # NoSession /\ item' # item) =>
          \E total_stats \in generation_totals(rfSession.rarity) :
              item' = Rerolled(item,
                               generated_stats(item.type, total_stats))]_vars
\* C17: whatever upgrade attempts were made on an item, two of them with
\* overlapping confirmation waits included, its upgrade level lies in 0..10
UpgradeLevelInRange ==
    item # NoItem => item.upgrade_level \in 0..MaxUpgradeLevel
\* an attempt waits at its prompt with the level 9 it read, while the other
\* attempt has already raised the item to 10
UpgradeLevelInRangeWitness ==
    /\ item # NoItem
    /\ item.upgrade_level = 10
    /\ upSession[1] # NoSession
    /\ upSession[1].current_level = 9
    /\ materials[upSession[1].material_type] < upSession[1].current_materials
\* C18 as stated: at upgrade level 10 the effective value of every stat
\* field is exactly 1.5 times its base value
EffectiveAtMaxLevelExact ==
    (item # NoItem /\ item.upgrade_level = MaxUpgradeLevel) =>
        \A field \in IntFields :
            2 * effective_stat(item, field) = 3 * item[field]
\* C18, amended: at upgrade level 10 the effective value of an integer stat
\* field is 1.5 times its base value rounded down, which is exactly 1.5
\* times the base only for an even base; luck and crit, which are not
\* truncated, are exactly 1.5 times their base
EffectiveAtMaxLevel ==
    (item # NoItem /\ item.upgrade_level = MaxUpgradeLevel) =>
        /\ \A field \in IntFields :
               /\ effective_stat(item, field) = (3 * item[field]) \div 2
               /\ (2 * effective_stat(item, field) = 3 * item[field])
                      <=> (item[field] % 2 = 0)
        /\ \A field \in PercentFields :
               2 * effective_percent(item[field], item.upgrade_level)
                   = 3 * (100 * item[field])
\* an upgrade to level 10 succeeded on an item whose damage is odd
EffectiveAtMaxLevelWitness ==
    /\ item # NoItem
    /\ item.upgrade_level = MaxUpgradeLevel
    /\ item.damage % 2 = 1
    /\ \E m \in DOMAIN materials : materials[m] < MaxMaterials
\* C19: for every stat field and base value the effective stat does not
\* decrease when the upgrade level rises from 0 to 10, and at level 0 it is
\* the base value
EffectiveMonotone ==
    /\ item # NoItem =>
          /\ \A field \in IntFields :
                 /\ effective(item[field], 0) = item[field]
                 /\ \A l \in 0..(MaxUpgradeLevel - 1) :
                        effective(item[field], l)
                            <= effective(item[field], l + 1)
          /\ \A field \in PercentFields :
                 /\ effective_percent(item[field], 0) = 100 * item[field]
                 /\ \A l \in 0..(MaxUpgradeLevel - 1) :
                        effective_percent(item[field], l)
                            <= effective_percent(item[field], l + 1)
    /\ \A s \in Sessions :
           upSession[s] # NoSession =>
               upSession[s].effective_damage
                   <= upSession[s].new_effective_damage
\* the upgrade prompt previews damage 45 at level 8, where the double
\* product truncates to 62
EffectiveMonotoneWitness ==
    /\ item # NoItem
    /\ item.damage = 45
    /\ upSession[1] # NoSession
    /\ upSession[1].target_level = 8
    /\ upSession[1].effective_damage = 60
    /\ upSession[1].new_effective_damage = 62
\* C20: the power calculation is a function of the store: two calls of the
\* same calculation with the same arguments on the same store contents
\* return the same value (no random draw is made inside)
PowerDeterministic ==
    \A i \in DOMAIN powerLog, j \in DOMAIN powerLog :
        (powerLog[i].fn = powerLog[j].fn
            /\ powerLog[i].args = powerLog[j].args)
        => powerLog[i].result = powerLog[j].result
\* C21: power is computed from the equipped items' effective (upgrade
\* scaled) damage and armor: a step that raises the worn item's upgrade
\* level, and with it its effective damage, raises the wearer's power
UpgradeRaisesStats ==
    /\ item # NoItem
    /\ item' # NoItem
    /\ item'.upgrade_level > item.upgrade_level
    /\ effective_stat(item', "damage") > effective_stat(item, "damage")
UpgradeRaisesPower ==
    [][UpgradeRaisesStats =>
          /\ combat_power(1)' > combat_power(1)
          /\ autoplay_power(1, 0)' > autoplay_power(1, 0)]_vars
\* C22: every adventure finalization, scheduled or manual, decides success
\* by a draw against success_chance = clamp(60 + 5*max(0, level-difficulty)
\* + min(20, equipment_power/10) + 10*(luck-1.0), 0, 95), a chance within
\* 0..95
Finalizations == {"complete_adventure", "level_up_check"}
FinalizationDrawsAgainstChance ==
    resolved.fn \in Finalizations =>
        /\ resolved.drawn
        /\ resolved.chance \in 0..950
        /\ resolved.success = (resolved.draw < resolved.chance)
\* the complete command resolved for a level-1 participant without
\* equipment, luck 1.0, on a difficulty-1 adventure
Level1Scenario ==
    /\ resolved.fn = "complete_adventure"
    /\ level[resolved.user_id] = 1
    /\ get_equipped_items(resolved.user_id) = {}
    /\ resolved.luck = 100
    /\ resolved.difficulty = 1
\* C23 as stated: in that scenario the success chance is exactly 65%; a
\* draw of 0.50 yields success and a draw of 0.70 yields failure
Level1ChanceIs65 ==
    Level1Scenario =>
        /\ resolved.chance = 650
        /\ resolved.draw = 500 => resolved.success
        /\ resolved.draw = 700 => ~resolved.success
\* C23, amended: in that scenario the success chance is exactly 60% (the
\* base chance, with no level, equipment or luck bonus); a draw of 0.50
\* yields success and a draw of 0.70 yields failure
Level1ChanceIs60 ==
    Level1Scenario =>
        /\ resolved.chance = 600
        /\ resolved.draw = 500 => resolved.success
        /\ resolved.draw = 700 => ~resolved.success
        /\ resolved.draw = 600 => ~resolved.success
\* the scenario was resolved with the draw 0.50 and succeeded
Level1ChanceIs60Witness ==
    /\ Level1Scenario
    /\ resolved.draw = 500
    /\ resolved.success
\* C24: when the two sides' adjusted values are equal the first participant
\* or team wins, in every battle resolution path (manual battle, automatic
\* 1v1, team battle)
BattlePaths ==
    {"combat.simulate_battle", "autoplay.simulate_battle", "run_3v3_battle"}
TieGoesToFirst ==
    (resolved.fn \in BattlePaths
        /\ resolved.adjusted[1] = resolved.adjusted[2])
    => resolved.winner = 1

\* C25: when a participant holds two unexpired blessings of one
\* multiplicative kind (xp, gold, battle) with values a and b, the
\* multiplier get_active_blessings resolves for that kind is max(a, b),
\* not their product and not their sum
SameKindPairs ==
    {pair \in SUBSET resolved.rows :
        /\ Cardinality(pair) = 2
        /\ \E e \in MultEffects :
              {r \in resolved.rows : r.effect = e} = pair}
SameKindResolvesToMax ==
    resolved.fn = "get_active_blessings" =>
        \A pair \in SameKindPairs : \A r1, r2 \in pair :
            r1 # r2 =>
                resolved.active[r1.effect] = Max(r1.value, r2.value)
SameKindResolvesToMaxWitness ==
    /\ resolved.fn = "get_active_blessings"
    /\ \E pair \in SameKindPairs : \E r1, r2 \in pair :
          /\ r1.value < r2.value
          /\ resolved.active[r1.effect] = r2.value

\* C26: one success/failure result is applied to all participants of a
\* raid: the reward step never gives one raider the victory reward (raid-win
\* counter incremented) and another the defeat consolation, and when the
\* step has run to its end either every raider has the victory reward or
\* every raider has the defeat consolation
WonRaid(p) ==
    /\ raidstats'[p] = raider_stats[p].raidstats + 1
    /\ xp'[p] >= raider_stats[p].xp + boss.xp_reward + 50
    /\ money'[p] >= raider_stats[p].money + boss.gold_reward + 200
Consoled(p) ==
    /\ raidstats'[p] = raidstats[p]
    /\ xp'[p] = raider_stats[p].xp + boss.xp_reward \div 3 + 25
    /\ money'[p] = raider_stats[p].money + boss.gold_reward \div 4 + 100
RewardStep == raidPc = "outcome" /\ raidPc' # "outcome"
OneResultForAllDefeat ==
    /\ raidPc = "report"
    /\ ~raid_success
    /\ \A p \in Players :
          /\ raidstats[p] = raider_stats[p].raidstats
          /\ xp[p] >= raider_stats[p].xp + boss.xp_reward \div 3 + 25

\* C27: in every category (adventure, epic adventure, raid) a failed unit
\* grants a consolation that is not zero and that is strictly smaller, in xp
\* and in gold, than anything the same unit could grant on success
Smaller(consolation, reward) ==
    consolation.xp < reward.xp /\ consolation.gold < reward.gold
NonZero(reward) == reward.xp > 0 \/ reward.gold > 0
ConsolationIsSmaller ==
    /\ (resolved.fn = "adventure_rewards" /\ ~resolved.success) =>
          /\ NonZero(resolved.reward)
          /\ \A draws \in AdventureDraws(resolved.unit),
                bless \in BlessingInputs :
                Smaller(resolved.reward,
                        adventure_rewards(resolved.unit, resolved.lvl,
                            resolved.race_multipliers, bless, TRUE, draws))
    /\ (resolved.fn = "epic_rewards" /\ ~resolved.success) =>
          /\ NonZero(resolved.reward)
          /\ \A draws \in EpicDraws, bless \in BlessingInputs :
                Smaller(resolved.reward,
                        epic_rewards(resolved.unit, resolved.race_multipliers,
                                     bless, TRUE, draws))
    /\ (resolved.fn = "raid_rewards" /\ ~resolved.success) =>
          /\ NonZero(resolved.reward)
          /\ \A draws \in RaidDraws :
                Smaller(resolved.reward,
                        raid_rewards(resolved.raid_mult, TRUE, draws))
ConsolationIsSmallerWitness ==
    /\ resolved.fn = "epic_rewards"
    /\ ~resolved.success
    /\ resolved.unit.base_xp = 2500
    /\ resolved.race_multipliers.xp_gain = 70
    /\ resolved.reward = [xp |-> 350, gold |-> 450]

\* C28: a completion tick that raises while it processes a unit (at the
\* item creation or at the result message) does not leave the unit active
\* with its reward applied: whenever a completion job is between two ticks,
\* no active unit of its table has a reward written
NoActiveUnitRewarded ==
    /\ lvPc = "idle" =>
          \A u \in Ids(adventures) :
              adventures[u].status = "active" => advRewards[u] = 0
    /\ ecPc = "idle" =>
          \A u \in Ids(epic_adventures) :
              epic_adventures[u].status = "active" => epicRewards[u] = 0

\* C29: a participant's blessings affect only their own rewards: the xp and
\* gold a 1v1 battle credits to a fighter are what the fighter's own race
\* bonus and own blessings give, whatever blessing the opponent holds now or
\* held at an earlier reward
OwnShare(base, race_bonus, own_mult) ==
    (base * ((race_bonus * own_mult) \div 100)) \div 100
BlessingsStayOwn ==
    resolved.fn = "run_1v1_battle" =>
        /\ resolved.winner_xp =
               OwnShare(DUEL_BASE.winner_xp,
                        RaceBonuses[Race(resolved.winner)].xp_gain,
                        resolved.xp_mult[resolved.winner])
        /\ resolved.loser_xp =
               OwnShare(DUEL_BASE.loser_xp,
                        RaceBonuses[Race(resolved.loser)].xp_gain,
                        resolved.xp_mult[resolved.loser])
        /\ resolved.winner_gold =
               OwnShare(DUEL_BASE.winner_gold,
                        RaceBonuses[Race(resolved.winner)].gold_find,
                        resolved.gold_mult)

\* C30: whenever a raid has been started (active_raid is set), active_raid
\* is eventually cleared, also when the announcement, the battle or the
\* reward step raises, so that a later tick can start a new raid
ActiveRaidCleared == (active_raid # NoRaid) ~> (active_raid = NoRaid)

\* C31: a completion of the adventure of a participant who holds an
\* unexpired divination (adventure_success) blessing succeeds
DivinationGuaranteesSuccess ==
    (resolved.fn = "complete_adventure" /\ resolved.adventure_success)
        => resolved.success

\* C32: an item generated with a forced rarity R is classified as R by
\* Item.rarity, for every item type and every total the generator can draw
\* for R
FreshlyGenerated ==
    /\ resolved.fn = "generate_item"
    /\ item # NoItem
    /\ item = generated_stats(item.type, resolved.total_stats)
ForcedRarityIsClassified ==
    (FreshlyGenerated /\ resolved.rarity # "none")
        => rarity(item) = resolved.rarity

\* C33: once create has inserted the character's record, the character owns
\* and has equipped a Starter Sword and a Starter Shield, each generated with
\* a total stat budget of StarterStat.
StarterOf(p, name, item_type) ==
    \E i \in equipped_ids(p), d \in ValueDraws :
        inventory[i] = [item_row(p, name, item_type, StarterStat, d)
                           EXCEPT !.equipped = TRUE]
StarterGearEquipped ==
    \A p \in Newcomers \cap characters :
        /\ StarterOf(p, "Starter Sword", "Sword")
        /\ StarterOf(p, "Starter Shield", "Shield")

\* C37: after any sequence of equip and remove commands the equipped set of
\* a character holds at most one item per armor slot, at most one shield, at
\* most one primary weapon, and never a two-handed weapon together with a
\* shield or another weapon.
ConsistentSet(rows) ==
    /\ \A slot \in armor_slots :
           Cardinality({i \in rows : inventory[i].slot_type = slot}) <= 1
    /\ Cardinality({i \in rows : inventory[i].type = "Shield"}) <= 1
    /\ Cardinality({i \in rows : inventory[i].type \in weapon_types}) <= 1
    /\ \A i \in rows, j \in rows :
           (i # j /\ inventory[i].hand = "both")
               => inventory[j].type \notin weapon_types \cup {"Shield"}
EquippedSetConsistent == \A p \in characters : ConsistentSet(equipped_ids(p))

\* C34: an item yields its dismantle or sale payout at most once: every step
\* that adds gold or materials removes a row of the inventory that was still
\* there, also when two commands were waiting for their confirmation.
Removed(i) == inventory[i].owner # 0 /\ inventory'[i].owner = 0
PaidOncePerItem ==
    [][(money' # money \/ materials' # materials)
           => \E i \in DOMAIN inventory : Removed(i)]_vars

\* C36: the daily reward is applied at most once per calendar date: a daily
\* command changes a character's gold, xp, streak or last_date only when the
\* character has not claimed on that date, it then applies all of them and
\* marks the date; every other invocation changes nothing.
Claimed(p) ==
    \/ money'[p] # money[p]
    \/ xp'[p] # xp[p]
    \/ streak'[p] # streak[p]
    \/ last_date'[p] # last_date[p]
DailyOncePerDate ==
    [][\A p \in Users :
           Claimed(p) => /\ last_date[p] # today
                         /\ last_date'[p] = today
                         /\ money'[p] > money[p]
                         /\ xp'[p] > xp[p]
                         /\ streak'[p] >= 1]_vars
\* a second invocation on the date of a claim was turned down
DailyOncePerDateWitness ==
    /\ resolved = [fn |-> "daily", user_id |-> 1, applied |-> FALSE]
    /\ last_date[1] = today
    /\ streak[1] = 1
    /\ money[1] > 0

\* C35: a wagered battle moves exactly the bet from the loser to the winner:
\* the winner has the bet more and the loser the bet less than before the
\* battle was resolved, so that their combined gold is unchanged, and
\* neither balance is negative, whatever happened to either balance while
\* the challenge waited for its acceptance.
BattleResolved ==
    /\ resolved'.fn = "battle"
    /\ resolved'.bet > 0
    /\ Cardinality(cmds') < Cardinality(cmds)
WagerMovesTheBet ==
    [][BattleResolved =>
           /\ money'[resolved'.winner] = money[resolved'.winner] + resolved'.bet
           /\ money'[resolved'.loser] = money[resolved'.loser] - resolved'.bet
           /\ \A p \in Users : money'[p] >= 0]_vars

\* C38: once the xp of the characters has stopped changing, level_fix_loop
\* brings every level to min(50, 1 + floor(sqrt(xp / 100))), and the levels
\* stay there.
\* it does so by the end of the first tick that has read the final xp: when
\* a tick ends, the level of every character whose xp is what the tick read
\* is that value
LevelsMatchXp == \A p \in characters : level[p] = LevelForXp(xp[p])
FixedByTick ==
    \A c \in LevelFix :
        LevelFix' = {}
            => \A p \in characters :
                   c.all_chars[p].xp = xp'[p] => level'[p] = LevelForXp(xp'[p])
OwnPower(p) == Max(1, (unscaled_power(p) * luck_column(p)) \div 100)
NoBlessingIsIdentity ==
    \A i \in DOMAIN powerLog :
        LET call == powerLog[i]
        IN  (call.fn = "combat.calculate_battle_power"
                 /\ ActiveBlessings(call.args[1]) = {})
                => call.result = OwnPower(call.args[1])

\* C40: a raider whose class gives a raid multiplier above 1.0 contributes
\* (attack + defense + equipment power) times that multiplier to the group
\* power of the raid, which is more than the same raider would contribute
\* with a multiplier of 1.0.
RaidMultScalesPower ==
    (resolved.fn = "raider_power" /\ resolved.class_raid_mult > 100)
        => /\ resolved.power = resolved.unscaled * resolved.class_raid_mult
           /\ resolved.power > resolved.unscaled * 100


====
